---- MODULE Spec2Model ----
(***************************************************************************)
(* A model of koishi-plugin-re-driftbottle (src/unnamed/part_002, the      *)
(* current revision of the plugin): the bottle and comment tables, the     *)
(* local asset directory, and the command handlers that change them.       *)
(*                                                                         *)
(* The handlers are asynchronous: every store call, network send and timed *)
(* wait is a suspension point.  The comment handler (评论瓶子) is modelled  *)
(* step by step, one action per stretch between two suspension points, so  *)
(* that two of them can interleave.  The other handlers are modelled as    *)
(* one action each (the handler run without interleaving).                 *)
(***************************************************************************)
EXTENDS Integers, Sequences, FiniteSets, TLC

(***************************************************************************)
(* Bounds of the model.                                                    *)
(***************************************************************************)
MaxBottles == 2      \* bottle rows ever created
MaxComments == 3     \* comment rows ever created
MaxDay == 2          \* last calendar day the clock reaches
MaxLength == 2       \* config.maxLength
MaxRetry == 1        \* config.maxRetry
MaxTitle == 2        \* longest title or name tried

Users == {"alice", "bob", "carol"}
Managers == {"alice"}          \* config.manager
Tasks == {1, 2}                \* handler invocations that can be in flight
Bots == {1, 2}                 \* ctx.bots, in iteration order

(***************************************************************************)
(* Rich text.  A content string is the sequence of elements h.parse gives: *)
(* text spans (only their length matters) and media elements with a src.   *)
(* Adjacent text spans are one span, as in the string they stand for.      *)
(***************************************************************************)
T(n) == [type |-> "text", len |-> n, src |-> <<>>]
Url(name) == <<"url", name>>
FileSrc(kind, id, index) == <<"file", kind, id, index>>
DataSrc(name) == <<"data", name>>
Media(type, src) == [type |-> type, len |-> 0, src |-> src]

MediaTypes == {"img", "audio", "video"}
IsMedia(e) == e.type \in MediaTypes
IsLocal(e) == IsMedia(e) /\ e.src[1] = "file"

\* content.length, in abstract units: a tag counts 1, an inlined payload 2.
ElemLen(e) ==
  IF e.type = "text" THEN e.len
  ELSE IF e.src[1] = "data" THEN 2 ELSE 1

RECURSIVE Length(_)
Length(c) == IF c = <<>> THEN 0 ELSE ElemLen(Head(c)) + Length(Tail(c))

\* String concatenation: the text span ending a meets the one starting b.
Concat(a, b) ==
  IF a = <<>> THEN b
  ELSE IF b = <<>> THEN a
  ELSE IF a[Len(a)].type = "text" /\ b[1].type = "text"
       THEN SubSeq(a, 1, Len(a) - 1)
              \o <<T(a[Len(a)].len + b[1].len)>>
              \o Tail(b)
       ELSE a \o b

\* content.replace(/<.*?>/g, ''): every tag is dropped.
RECURSIVE StripTags(_)
StripTags(c) ==
  IF c = <<>> THEN <<>>
  ELSE IF Head(c).type = "text" THEN Concat(<<Head(c)>>, StripTags(Tail(c)))
       ELSE StripTags(Tail(c))

HasAudioVideo(c) == \E i \in 1..Len(c) : c[i].type \in {"audio", "video"}

\* The local files a content refers to (src starting with "file").
LocalFiles(c) == {c[i].src : i \in {j \in 1..Len(c) : IsLocal(c[j])}}

(***************************************************************************)
(* Titles are strings over a small alphabet.  NoTitle is options.title     *)
(* when the -t flag is absent (undefined).                                 *)
(***************************************************************************)
Digits == {"0", "1"}
NoTitle == <<"undefined">>

\* s, from position i on, is digits only and not empty.
RECURSIVE AllDigits(_, _)
AllDigits(s, i) ==
  /\ i <= Len(s)
  /\ s[i] \in Digits
  /\ (i = Len(s) \/ AllDigits(s, i + 1))

\* s, from position i on, reads digits+ ( "e" digits+ )?
RECURSIVE DecimalFrom(_, _, _)
DecimalFrom(s, i, seen) ==
  IF i > Len(s) THEN seen
  ELSE IF s[i] \in Digits THEN DecimalFrom(s, i + 1, TRUE)
  ELSE IF s[i] = "e" THEN seen /\ AllDigits(s, i + 1)
  ELSE FALSE

\* isNaN(+s): Number("") is 0, Number(undefined) is NaN, a decimal literal
\* with an optional sign and exponent is a number, anything else is NaN.
IsNaNNumber(s) ==
  IF s = NoTitle THEN TRUE
  ELSE IF s = <<>> THEN FALSE
  ELSE IF s[1] = "-" THEN ~DecimalFrom(s, 2, FALSE)
  ELSE ~DecimalFrom(s, 1, FALSE)

(***************************************************************************)
(* State.                                                                  *)
(***************************************************************************)
VARIABLES
  bottle,          \* the bottle table: a set of rows
  comment,         \* the comment table: a set of rows
  nextBottleId,    \* the store's auto-increment counters
  nextCommentId,
  files,           \* the local asset directory: the file names in it
  today,           \* Time.getDateNumber()
  config,          \* the plugin's configuration
  task,            \* per invocation: handler, position, locals, reply
  sched,           \* the broadcast loop of the ready handler
  bottleMap        \* message handle -> bottle id, as a set of pairs

vars == <<bottle, comment, nextBottleId, nextCommentId, files, today,
          config, task, sched, bottleMap>>

\* A local that holds no row (undefined).
NoRow == [id |-> 0]

Idle ==
  [pc |-> "idle", op |-> "none", result |-> "none", u |-> "none",
   bid |-> 0, rid |-> 0, ct |-> <<>>, bcount |-> 0, cid |-> 0, cmid |-> 0,
   count |-> 0, retry |-> 0, rows |-> {}, log |-> <<>>,
   qq |-> TRUE, bot |-> 0, brow |-> NoRow, parent |-> NoRow, broken |-> {},
   crows |-> {}, answer |-> FALSE, fatal |-> {}]

\* The invocation has returned: `result` is what the requester was told.
Done(op, result) ==
  [Idle EXCEPT !.pc = "done", !.op = op, !.result = result]

Free(t) == task[t].pc \in {"idle", "done"}

\* A management command has returned; the record keeps who invoked it.
DoneFor(u, op, result) == [Done(op, result) EXCEPT !.u = u]

\* if (confirm !== '是') return "已取消操作": `confirm` says whether the reply
\* to the first prompt was exactly the keyword (a timeout is not).
AlwaysConfirmed(confirm) == TRUE
Confirmed(confirm) == confirm

\* The invocation has returned this result.
Ended(t, op, result) ==
  task[t].pc = "done" /\ task[t].op = op /\ task[t].result = result

\* ctx.database.get(table, filter)
BottlesById(id) == {b \in bottle : b.id = id}
CommentsOf(bid) == {c \in comment : c.bid = bid}

EveryoneManages(u) == TRUE
IsManager(u) == u \in Managers

\* session.event.guild.id and session.event.channel.id: each user writes
\* from one place, a guild channel or a private conversation (no guild).
Private(u) == "private:" \o u
Place ==
  [alice |-> [gid |-> "g1", cnid |-> "c1"],
   bob |-> [gid |-> "", cnid |-> Private("bob")],
   carol |-> [gid |-> "g2", cnid |-> "c2"]]
Guilds == {"g1", "g2"}

BottleLimit == 0     \* config.bottleLimit (default): 0 is "no pages"

\* config.guildId[bot.platform]: absent ("all": every guild the bot sees),
\* empty ("none": the platform is skipped) or a list of guild ids ("list").
GuildModes == {"all", "none", "list"}

Configs(previews, saveModes, allowPics) ==
  [preview : previews, saveMode : saveModes, allowPic : allowPics,
   bottleLimit : {BottleLimit}, randomSend : {FALSE},
   guildId : {[b \in Bots |-> "all"]}, messageRecord : {FALSE}]

\* The same configurations with each of the display modes of a draw.
WithMessageRecord(cfgs, records) ==
  {[c EXCEPT !.messageRecord = m] : c \in cfgs, m \in records}

\* The same configurations with the broadcast enabled, for each of the
\* target maps.
WithRandomSend(cfgs, maps) ==
  {[c EXCEPT !.randomSend = TRUE, !.guildId = g] : c \in cfgs, g \in maps}

\* The same configurations with each of the page sizes.
WithBottleLimit(cfgs, limits) ==
  {[c EXCEPT !.bottleLimit = l] : c \in cfgs, l \in limits}

(***************************************************************************)
(* Transport.  session.bot.sendMessage throws when the message cannot be    *)
(* delivered, which is what the retry loops catch; session.send, used for  *)
(* the notices, logs a failure and returns.                                *)
(* What an invocation has done on the transport, in order: the delivery    *)
(* attempts (one pass through the try block of a retry loop: `loop` names  *)
(* the loop, a pair of the delivery and the bot or row it runs for, `item` *)
(* the bottle or comment sent, `ok` whether it went through) and the waits *)
(* of config.retryInterval.                                                *)
(***************************************************************************)
Try(loop, item, ok) ==
  [ev |-> "try", loop |-> loop, item |-> item, ok |-> ok, msgs |-> <<>>,
   ids |-> {}]
Wait(loop) ==
  [ev |-> "wait", loop |-> loop, item |-> 0, ok |-> TRUE, msgs |-> <<>>,
   ids |-> {}]

\* An attempt to deliver a bottle: msgs are the messages handed to the
\* transport in order, each the set of the parts it carries.
Show(loop, item, ok, msgs) == [Try(loop, item, ok) EXCEPT !.msgs = msgs]

\* The part a bottle's content makes in a message.
Part(c) == IF HasAudioVideo(c) THEN "media" ELSE "content"

\* Post-bottle preview: the notice, and the content apart when it has an
\* audio or video element.
PreviewMessages(c) ==
  IF HasAudioVideo(c) THEN <<{"caption"}, {Part(c)}>>
  ELSE <<{"caption", Part(c)}>>

\* Draw: with config.messageRecord one forward record whose nodes are the
\* caption, the content and the comments; otherwise result, and result2
\* (the content and the comment lines) when the content has audio or video.
DrawMessages(c, record, commented) ==
  LET com == IF commented THEN {"comments"} ELSE {}
  IN IF record
     THEN <<{"caption"}, {Part(c)}>> \o (IF commented THEN <<com>> ELSE <<>>)
     ELSE IF HasAudioVideo(c) THEN <<{"caption"}, {Part(c)} \cup com>>
     ELSE <<{"caption", Part(c)} \cup com>>

\* Scheduled broadcast, to the guild or to the fallback channel.
BroadcastMessages(c) ==
  IF HasAudioVideo(c) THEN <<{"caption"}, {Part(c)}>>
  ELSE <<{"caption", Part(c)}>>

\* Audit re-send: result is the header, the author, the content and the
\* date in one string.
AuditMessages(c) == <<{"caption", Part(c)}>>

\* A budget with one attempt more.
ExhaustedLate(retry) == retry > MaxRetry + 1

\* if (retry > config.maxRetry), evaluated after retry++
Exhausted(retry) == retry > MaxRetry

\* The invocation has returned; what it sent stays on record.
DoneWith(rec, op, result) == [Done(op, result) EXCEPT !.log = rec.log]

\* extendTables, then apply: the tables of a fresh installation are empty.
InitWith(cfgs) ==
  /\ bottle = {}
  /\ comment = {}
  /\ nextBottleId = 1
  /\ nextCommentId = 1
  /\ files = {}
  /\ today = 0
  /\ config \in cfgs
  /\ task = [t \in Tasks |-> Idle]
  /\ sched = [pc |-> "off", bot |-> 0, retry |-> 0, guilds |-> FALSE,
              rows |-> {}, log |-> <<>>, disposed |-> FALSE]
  /\ bottleMap = {}

\* The calendar day advances.
Tick ==
  /\ today < MaxDay
  /\ today' = today + 1
  /\ UNCHANGED <<bottle, comment, nextBottleId, nextCommentId, files,
                 config, bottleMap, task, sched>>

(***************************************************************************)
(* Bounded retry.  A loop makes an attempt; when it throws, retry is       *)
(* incremented, the loop gives up once retry > config.maxRetry, and        *)
(* otherwise waits config.retryInterval (ctx.sleep, which throws when the  *)
(* plugin is disposed during the wait) and tries again.  `fails` is the    *)
(* number of attempts that throw before one succeeds, `cancelAt` the wait  *)
(* that is interrupted (0: none).                                          *)
(***************************************************************************)
RECURSIVE RetryRun(_, _, _)
RetryRun(retry, fails, cancelAt) ==
  IF fails = 0 THEN "ok"
  ELSE IF Exhausted(retry + 1) THEN "exhausted"
  ELSE IF cancelAt = retry + 1 THEN "cancelled"
  ELSE RetryRun(retry + 1, fails - 1, cancelAt)

RetryOutcomes ==
  {RetryRun(0, f, c) : f \in 0..(MaxRetry + 1), c \in 0..MaxRetry}

\* What the same run does on the transport.
RECURSIVE RetryTrace(_, _, _, _, _)
RetryTrace(loop, item, retry, fails, cancelAt) ==
  IF fails = 0 THEN <<Try(loop, item, TRUE)>>
  ELSE IF Exhausted(retry + 1) THEN <<Try(loop, item, FALSE)>>
  ELSE IF cancelAt = retry + 1 THEN <<Try(loop, item, FALSE), Wait(loop)>>
  ELSE <<Try(loop, item, FALSE), Wait(loop)>>
         \o RetryTrace(loop, item, retry + 1, fails - 1, cancelAt)

\* The runs that end with this outcome.
RetryRuns(out) ==
  {r \in [fails : 0..(MaxRetry + 1), cancelAt : 0..MaxRetry] :
     RetryRun(0, r.fails, r.cancelAt) = out}

(***************************************************************************)
(* Asset externalizer, as run when a bottle or a comment is posted.        *)
(***************************************************************************)
\* The element is fetched under this save mode.
NeedsFetch(e, mode) ==
  /\ IsMedia(e)
  /\ \/ mode = "file" /\ e.src[1] # "file"
     \/ mode = "base64" /\ e.src[1] \notin {"file", "data"}

\* The positions (1-based) of the elements that are fetched.
FetchedAt(c, mode) == {i \in 1..Len(c) : NeedsFetch(c[i], mode)}

\* The rewritten elements; the file is named by entity kind, row id and the
\* element's index in the parsed content (0-based).
Externalized(c, mode, kind, id) ==
  [i \in 1..Len(c) |->
     IF ~NeedsFetch(c[i], mode) THEN c[i]
     ELSE IF mode = "file"
          THEN Media(c[i].type, FileSrc(kind, id, i - 1))
          ELSE Media(c[i].type, DataSrc(c[i].src[2]))]

\* The files the "file" mode writes.
WrittenFiles(c, mode, kind, id) ==
  IF mode = "file"
  THEN {FileSrc(kind, id, i - 1) : i \in FetchedAt(c, mode)}
  ELSE {}

(***************************************************************************)
(* 漂流瓶.扔漂流瓶 (post a bottle).                                        *)
(***************************************************************************)
AllowDropOthers == FALSE       \* config.allowDropOthers (default)
SelfDrop == FALSE              \* config.selfDrop (default)

NoQuote == [user |-> "none", content |-> <<>>]
HasQuote(q) == q.user # "none"

\* isNaN(+title) decides whether a title is accepted.
TitleAccepted(title) == IsNaNNumber(title)

\* quote?.content ?? message, without its tags unless config.allowPic.
PostedContent(message, quote) ==
  LET raw == IF HasQuote(quote) THEN quote.content ELSE message
  IN IF config.allowPic THEN raw ELSE StripTags(raw)

\* What the handler does to the store and the asset directory, and what it
\* answers.  aOut and pOut are the outcomes of the asset and preview retry
\* loops, `partial` the files a failed externalization left behind.
PostBottleResult(u, message, quote, title, aOut, partial, pOut) ==
  LET same(result) ==
        [b |-> bottle, n |-> nextBottleId, f |-> files, result |-> result]
      uid == IF SelfDrop \/ ~HasQuote(quote) THEN u ELSE quote.user
      content == PostedContent(message, quote)
      id == nextBottleId
      row == [id |-> id, name |-> IF title = NoTitle THEN <<>> ELSE title,
              uid |-> uid, gid |-> Place[u].gid, cnid |-> Place[u].cnid,
              content |-> content, isHot |-> 0, commentCount |-> 0,
              time |-> today]
      fetch == FetchedAt(content, config.saveMode) # {}
      written == WrittenFiles(content, config.saveMode, "bottle", id)
      stored == IF fetch
                THEN Externalized(content, config.saveMode, "bottle", id)
                ELSE content
      kept(c, fs, result) ==
        [b |-> bottle \cup {[row EXCEPT !.content = c]}, n |-> id + 1,
         f |-> files \cup fs, result |-> result]
      dropped(fs, result) ==
        [b |-> bottle, n |-> id + 1, f |-> files \cup fs, result |-> result]
  IN
  IF ~TitleAccepted(title) THEN same("numericTitle")
  ELSE IF message = <<>> /\ ~HasQuote(quote) THEN same("noContent")
  ELSE IF /\ HasQuote(quote) /\ ~IsManager(u) /\ quote.user # u
          /\ ~AllowDropOthers
       THEN same("noPermission")
  ELSE IF Length(content) < 1 THEN same("tooShort")
  \* ctx.database.create('bottle', ...)
  ELSE IF fetch /\ aOut = "exhausted" THEN dropped(partial, "assetFailed")
  ELSE IF fetch /\ aOut = "cancelled" THEN kept(content, partial, "cancelled")
  ELSE IF Length(stored) > MaxLength THEN kept(content, written, "tooLong")
  \* ctx.database.set("bottle", {id}, {content})
  ELSE IF ~config.preview THEN kept(stored, written, "ok")
  ELSE IF pOut = "exhausted" THEN dropped(written, "previewFailed")
  ELSE IF pOut = "cancelled" THEN kept(stored, written, "cancelled")
  ELSE kept(stored, written, "previewSent")

PostBottle(t, u, message, quote, title, aOut, pOut) ==
  /\ Free(t)
  /\ \E partial \in SUBSET WrittenFiles(
              PostedContent(message, quote), config.saveMode, "bottle",
              nextBottleId) :
         LET r == PostBottleResult(u, message, quote, title, aOut, partial,
                                   pOut)
             fetch == FetchedAt(PostedContent(message, quote),
                                config.saveMode) # {}
             previewed == \/ r.result \in {"previewSent", "previewFailed"}
                          \/ /\ r.result = "cancelled"
                             /\ ~(fetch /\ aOut = "cancelled")
         IN /\ r.n <= MaxBottles + 1
            /\ bottle' = r.b
            /\ nextBottleId' = r.n
            /\ files' = r.f
            /\ \E run \in RetryRuns(pOut) :
                 task' = [task EXCEPT ![t] =
                   [Done("postBottle", r.result) EXCEPT !.log =
                      IF previewed
                      THEN LET tr == RetryTrace(<<"bottlePreview", 0>>,
                                                nextBottleId, 0,
                                                run.fails, run.cancelAt)
                           IN [i \in DOMAIN tr |->
                                 IF tr[i].ev = "try"
                                 THEN [tr[i] EXCEPT
                                         !.msgs = PreviewMessages(message)]
                                 ELSE tr[i]]
                      ELSE <<>>]]
  /\ UNCHANGED <<comment, nextCommentId, today, config, bottleMap, sched>>

(***************************************************************************)
(* 漂流瓶.删除瓶子 (delete a bottle).  unlinkSync throws when the file is  *)
(* not there, which ends the handler before any row is removed; the files  *)
(* unlinked before that are gone.                                          *)
(***************************************************************************)
\* Only the files the bottle's own content refers to.
BottleFilesOwnOnly(b) == LocalFiles(b.content)

\* The local files referenced by the bottle and by its comments.
BottleFiles(b) ==
  LocalFiles(b.content)
    \cup UNION {LocalFiles(c.content) : c \in CommentsOf(b.id)}

DeleteBottleAllowed(u, b) == IsManager(u) \/ u = b.uid

DeleteBottle(t, u, id) ==
  /\ Free(t)
  /\ IF BottlesById(id) = {}
     THEN /\ task' = [task EXCEPT
                        ![t] = DoneFor(u, "deleteBottle", "bottleNotFound")]
          /\ UNCHANGED <<bottle, comment, files>>
     ELSE LET b == CHOOSE x \in BottlesById(id) : TRUE
          IN IF ~DeleteBottleAllowed(u, b)
             THEN /\ task' = [task EXCEPT
                        ![t] = DoneFor(u, "deleteBottle", "noPermission")]
                  /\ UNCHANGED <<bottle, comment, files>>
             ELSE IF BottleFiles(b) \subseteq files
             THEN /\ files' = files \ BottleFiles(b)
                  /\ bottle' = {x \in bottle : x.id # id}
                  /\ comment' = {c \in comment : c.bid # id}
                  /\ task' = [task EXCEPT
                                ![t] = DoneFor(u, "deleteBottle", "ok")]
             ELSE /\ \E gone \in SUBSET (BottleFiles(b) \cap files) :
                       files' = files \ gone
                  /\ task' = [task EXCEPT
                                ![t] = DoneFor(u, "deleteBottle", "error")]
                  /\ UNCHANGED <<bottle, comment>>
  /\ UNCHANGED <<nextBottleId, nextCommentId, today, config, bottleMap, sched>>

(***************************************************************************)
(* 漂流瓶.删除评论 (delete a comment).  The row the permission check looks  *)
(* at is the first the store returns for {bid, cid}; the removal is by     *)
(* {bid, cid}.                                                             *)
(***************************************************************************)
CommentsByCid(bid, cid) == {c \in comment : c.bid = bid /\ c.cid = cid}

DeleteCommentAllowed(u, c) == IsManager(u) \/ u = c.uid

\* The comment table once the handler has removed what it removes.
CommentsAfterDelete(bid, cid) ==
  {c \in comment : ~(c.bid = bid /\ c.cid = cid)}

DeleteComment(t, u, bid, cid) ==
  /\ Free(t)
  /\ IF CommentsByCid(bid, cid) = {}
     THEN /\ task' = [task EXCEPT
                       ![t] = DoneFor(u, "deleteComment", "commentNotFound")]
          /\ UNCHANGED <<bottle, comment, files>>
     ELSE \E c \in CommentsByCid(bid, cid) :
            IF ~DeleteCommentAllowed(u, c)
            THEN /\ task' = [task EXCEPT
                       ![t] = DoneFor(u, "deleteComment", "noPermission")]
                 /\ UNCHANGED <<bottle, comment, files>>
            ELSE IF LocalFiles(c.content) \subseteq files
            THEN /\ files' = files \ LocalFiles(c.content)
                 /\ comment' = CommentsAfterDelete(bid, cid)
                 /\ UNCHANGED bottle
                 /\ task' = [task EXCEPT
                       ![t] = DoneFor(u, "deleteComment", "ok")]
            ELSE /\ \E gone \in SUBSET (LocalFiles(c.content) \cap files) :
                      files' = files \ gone
                 /\ task' = [task EXCEPT
                       ![t] = DoneFor(u, "deleteComment", "error")]
                 /\ UNCHANGED <<bottle, comment>>
  /\ UNCHANGED <<nextBottleId, nextCommentId, today, config, bottleMap, sched>>

(***************************************************************************)
(* 漂流瓶.命名瓶子 (rename) and 漂流瓶.设置精选瓶子 (set featured).         *)
(***************************************************************************)
\* No check at all on the new name.
AnyNameAccepted(name) == TRUE

\* isNaN(+name) decides whether a new name is accepted.
NameAccepted(name) == IsNaNNumber(name)

RenameBottle(t, u, id, name) ==
  /\ Free(t)
  /\ IF BottlesById(id) = {}
     THEN /\ task' = [task EXCEPT
                        ![t] = Done("rename", "bottleNotFound")]
          /\ UNCHANGED bottle
     ELSE LET b == CHOOSE x \in BottlesById(id) : TRUE
          IN IF b.uid # u /\ ~IsManager(u)
             THEN /\ task' = [task EXCEPT
                                ![t] = Done("rename", "noPermission")]
                  /\ UNCHANGED bottle
             ELSE IF ~NameAccepted(name)
             THEN /\ task' = [task EXCEPT
                                ![t] = Done("rename", "numericTitle")]
                  /\ UNCHANGED bottle
             ELSE /\ bottle' = {IF x.id = id THEN [x EXCEPT !.name = name]
                                ELSE x : x \in bottle}
                  /\ task' = [task EXCEPT
                                ![t] = Done("rename", "ok")]
  /\ UNCHANGED <<comment, nextBottleId, nextCommentId, files, today,
                 config, bottleMap, sched>>

SetFeatured(t, u, id) ==
  /\ Free(t)
  /\ IF BottlesById(id) = {}
     THEN /\ task' = [task EXCEPT
                        ![t] = DoneFor(u, "setFeatured", "bottleNotFound")]
          /\ UNCHANGED bottle
     ELSE IF ~IsManager(u)
     THEN /\ task' = [task EXCEPT
                        ![t] = DoneFor(u, "setFeatured", "noPermission")]
          /\ UNCHANGED bottle
     ELSE /\ bottle' = {IF x.id = id THEN [x EXCEPT !.isHot = 1]
                        ELSE x : x \in bottle}
          /\ task' = [task EXCEPT ![t] = DoneFor(u, "setFeatured", "ok")]
  /\ UNCHANGED <<comment, nextBottleId, nextCommentId, files, today,
                 config, bottleMap, sched>>

(***************************************************************************)
(* 漂流瓶.删除过期瓶子 (expire).                                            *)
(***************************************************************************)
\* A sweep that also takes the rows of age exactly `days`.
ExpiredInclusive(row, days) == row.time <= today - days

Expired(row, days) == row.time < today - days

Expire(t, u, days) ==
  /\ Free(t)
  /\ IF ~IsManager(u)
     THEN /\ task' = [task EXCEPT
                        ![t] = DoneFor(u, "expire", "noPermission")]
          /\ UNCHANGED <<bottle, comment>>
     ELSE LET old == {b \in bottle : Expired(b, days)}
          IN IF old = {}
             THEN /\ task' = [task EXCEPT
                                ![t] = DoneFor(u, "expire", "noneExpired")]
                  /\ UNCHANGED <<bottle, comment>>
             ELSE /\ bottle' = bottle \ old
                  /\ comment' =
                       {c \in comment :
                          /\ ~Expired(c, days)
                          /\ c.bid \notin {b.id : b \in old}}
                  /\ task' = [task EXCEPT
                                ![t] = DoneFor(u, "expire", "ok")]
  /\ UNCHANGED <<nextBottleId, nextCommentId, files, today,
                 config, bottleMap, sched>>

(***************************************************************************)
(* 漂流瓶.删除无效评论 (audit comments): after a confirmation, every       *)
(* comment of every bottle in the id range is sent again; those whose send *)
(* fails maxRetry + 1 times are recorded, and removed if the requester     *)
(* answers the second prompt with the delete keyword.  first > last > 0 is *)
(* a range the handler refuses; first = 0 is no range.                     *)
(***************************************************************************)
InRange(id, first, last) == first = 0 \/ (first <= id /\ id <= last)

AuditComments(t, u, first, last, confirm, broken, interrupted, reply) ==
  /\ Free(t)
  /\ broken \subseteq {c \in comment : InRange(c.bid, first, last)
                                       /\ BottlesById(c.bid) # {}}
  /\ LET end(result) ==
           task' = [task EXCEPT ![t] = Done("auditComments", result)]
     IN IF ~IsManager(u) THEN end("noPermission") /\ UNCHANGED comment
        ELSE IF first > 0 /\ last = 0 THEN end("needEnd") /\ UNCHANGED comment
        ELSE IF first > last THEN end("badRange") /\ UNCHANGED comment
        ELSE IF ~confirm THEN end("cancelled") /\ UNCHANGED comment
        ELSE IF interrupted THEN end("interrupted") /\ UNCHANGED comment
        ELSE IF broken = {} THEN end("noneBroken") /\ UNCHANGED comment
        ELSE IF ~reply THEN end("purgeCancelled") /\ UNCHANGED comment
        ELSE /\ comment' = {c \in comment : c.id \notin {x.id : x \in broken}}
             /\ end("purged")
  /\ UNCHANGED <<bottle, nextBottleId, nextCommentId, files, today,
                 config, bottleMap, sched>>

(***************************************************************************)
(* 漂流瓶.评论瓶子 (post a comment or a reply), one action per stretch of   *)
(* the handler between two suspension points.  task[t].pc names the call   *)
(* the invocation is suspended at.                                         *)
(***************************************************************************)
RECURSIVE MaxOf(_)
MaxOf(S) ==
  LET x == CHOOSE y \in S : TRUE
  IN IF S = {x} THEN x
     ELSE LET m == MaxOf(S \ {x}) IN IF x > m THEN x ELSE m

\* A numbering that repeats the highest cid: the + 1 is missing.
NextCidNoIncrement(data) ==
  IF data = {} THEN 1 ELSE MaxOf({c.cid : c \in data})

\* A numbering by the number of rows: data.length + 1.
NextCidByLength(data) == Cardinality(data) + 1

\* data.length === 0 ? 1 : Math.max(...data.map(c => c.cid)) + 1
NextCid(data) ==
  IF data = {} THEN 1 ELSE MaxOf({c.cid : c \in data}) + 1

\* The value written to commentCount after a comment was persisted: with the
\* preview, the bottle's commentCount + 1; without it, the number of rows
\* the lookup of the bottle returned + 1.
CountWithPreview(rows) == (CHOOSE b \in rows : TRUE).commentCount + 1
CountWithoutPreview(rows) == Cardinality(rows) + 1

\* The checks on the comment's text; "ok" when it passes.
CommentCheck(ct) ==
  IF ct = <<>> THEN "noContent"
  ELSE LET c == IF config.allowPic THEN ct ELSE StripTags(ct)
       IN IF HasAudioVideo(c) THEN "badMedia"
          ELSE IF Length(c) > MaxLength THEN "tooLong"
          ELSE IF Length(c) < 1 THEN "tooShort"
          ELSE "ok"

\* ct = "“" + ct + "”"
Quoted(ct) ==
  Concat(Concat(<<T(1)>>, IF config.allowPic THEN ct ELSE StripTags(ct)),
         <<T(1)>>)

\* The comment handler returns.
Finish(t, result) == DoneWith(task[t], "postComment", result)

\* After the checks: the text is quoted, and the handler asks the store for
\* the bottle's comments.
\* Unless the session is on the "qq" platform the notifications come first,
\* bot by bot.
Checked(rec) ==
  IF CommentCheck(rec.ct) # "ok"
  THEN Done("postComment", CommentCheck(rec.ct))
  ELSE IF rec.qq
  THEN [rec EXCEPT !.pc = "getComments", !.ct = Quoted(rec.ct)]
  ELSE [rec EXCEPT !.pc = "notify", !.bot = 1, !.ct = Quoted(rec.ct)]

\* The handler is invoked: const bottle = (await get('bottle', {id}))[0]
PCStartOn(t, u, id, rid, ct, qq) ==
  /\ Free(t)
  /\ LET rec == [Idle EXCEPT !.op = "postComment", !.u = u, !.bid = id,
                             !.rid = rid, !.ct = ct, !.qq = qq]
     IN IF BottlesById(id) = {}
        THEN task' = [task EXCEPT
                        ![t] = Done("postComment", "bottleNotFound")]
        ELSE LET b == CHOOSE x \in BottlesById(id) : TRUE
                 got == [rec EXCEPT !.bcount = b.commentCount, !.brow = b]
             IN IF rid > 0
                THEN task' = [task EXCEPT ![t] = [got EXCEPT !.pc = "getReply"]]
                ELSE task' = [task EXCEPT ![t] = Checked(got)]
  /\ UNCHANGED <<bottle, comment, nextBottleId, nextCommentId, files, today,
                 config, bottleMap, sched>>

\* The same on the "qq" platform, where nobody is notified.
PCStart(t, u, id, rid, ct) == PCStartOn(t, u, id, rid, ct, TRUE)

\* comment = (await get('comment', {bid: id, cid: replyId}))[0]
PCGetReply(t) ==
  /\ task[t].pc = "getReply"
  /\ IF CommentsByCid(task[t].bid, task[t].rid) = {}
     THEN task' = [task EXCEPT
                     ![t] = Done("postComment", "commentNotFound")]
     ELSE LET c == CHOOSE x \in CommentsByCid(task[t].bid, task[t].rid) : TRUE
          IN task' = [task EXCEPT
                        ![t] = Checked([task[t] EXCEPT !.parent = c])]
  /\ UNCHANGED <<bottle, comment, nextBottleId, nextCommentId, files, today,
                 config, bottleMap, sched>>

(***************************************************************************)
(* The notifications, for one bot of ctx.bots: the guilds the bot sees are *)
(* enumerated and, at the first that is the bottle's guild or the target's *)
(* channel, the message goes to the target's channel and, when that fails  *)
(* or the channel is empty, to the target's guild; when no guild matches   *)
(* and getFriendIter did not throw, the friends are enumerated and the     *)
(* message goes out at the friend the target's channel names.  The target  *)
(* is the bottle, or the comment replied to.  Both enumerations run        *)
(* outside every try block.                                                *)
(***************************************************************************)
Sent(bot, addr, ok) ==
  [ev |-> "notify", loop |-> <<"notify", bot>>, item |-> addr, ok |-> ok]
Reported(bot) ==
  [ev |-> "report", loop |-> <<"notify", bot>>, item |-> "", ok |-> TRUE]

\* cnid.replace("private:", "")
FriendOf(cnid) ==
  IF \E u \in Users : cnid = Private(u)
  THEN CHOOSE u \in Users : cnid = Private(u)
  ELSE cnid

\* ct = `回复 ${replyId}. ${commentUsername}：${ct}`
ReplyPrefixed(ct) == Concat(<<T(1)>>, ct)

\* Nobody is ever left out.
NotifiesEveryone(u, target) == FALSE

\* if (uid !== buid), if (cuid !== uid): the commenter is the target, who
\* is not notified.
SkipsNotify(u, target) == u = target.uid

\* The address the friend path sends to: the bottle's channel.
FriendAddress(rec) == rec.brow.cnid

\* What can throw besides a send: the enumeration of the guilds, the call
\* of getFriendIter, the enumeration of the friends.
Faults == {"none", "guilds", "getFriends", "friends"}

NotifyBot(rec, seen, friends, fault, chanOk, guildOk) ==
  LET i == rec.bot
      reply == rec.rid > 0
      target == IF reply THEN rec.parent ELSE rec.brow
      ct == IF reply THEN ReplyPrefixed(rec.ct) ELSE rec.ct
      matched == seen \cap {rec.brow.gid, target.cnid} # {}
      chanSent == target.cnid # "" /\ chanOk
      guildSends ==
        (IF target.cnid # "" THEN <<Sent(i, target.cnid, chanOk)>> ELSE <<>>)
        \o (IF chanSent THEN <<>> ELSE <<Sent(i, target.gid, guildOk)>>)
        \o (IF chanSent \/ guildOk THEN <<>> ELSE <<Reported(i)>>)
      friendSends ==
        IF FriendOf(target.cnid) \notin friends THEN <<>>
        ELSE <<Sent(i, FriendAddress(rec), chanOk)>>
             \o (IF chanOk THEN <<>> ELSE <<Reported(i)>>)
      with(events) == [rec EXCEPT !.ct = ct, !.log = rec.log \o events]
      next(r) == IF i + 1 \in Bots THEN [r EXCEPT !.bot = i + 1]
                 ELSE [r EXCEPT !.pc = "getComments", !.bot = 0]
      throws == DoneWith(with(<<>>), "postComment", "error")
  IN IF SkipsNotify(rec.u, target) THEN next(with(<<>>))
     ELSE IF fault = "guilds" THEN throws
     ELSE IF matched THEN next(with(guildSends))
     ELSE IF fault = "getFriends" THEN next(with(<<>>))
     ELSE IF fault = "friends" THEN throws
     ELSE next(with(friendSends))

PCNotify(t, seen, friends, fault, chanOk, guildOk) ==
  /\ task[t].pc = "notify"
  /\ task' = [task EXCEPT ![t] =
                NotifyBot(task[t], seen, friends, fault, chanOk, guildOk)]
  /\ UNCHANGED <<bottle, comment, nextBottleId, nextCommentId, files, today,
                 config, bottleMap, sched>>

\* let data = await get('comment', {bid: id}); the cid is computed from it.
PCGetComments(t) ==
  /\ task[t].pc = "getComments"
  /\ task' = [task EXCEPT ![t] = [task[t] EXCEPT
                !.pc = "create", !.cid = NextCid(CommentsOf(task[t].bid))]]
  /\ UNCHANGED <<bottle, comment, nextBottleId, nextCommentId, files, today,
                 config, bottleMap, sched>>

\* Where the handler goes once the row and its assets are stored.
AfterStore == IF config.preview THEN "preview" ELSE "notice"

\* let preview = await create('comment', {cid, bid: id, ...})
PCCreate(t) ==
  /\ task[t].pc = "create"
  /\ nextCommentId <= MaxComments
  /\ comment' = comment \cup
       {[id |-> nextCommentId, cid |-> task[t].cid, bid |-> task[t].bid,
         uid |-> task[t].u, gid |-> Place[task[t].u].gid,
         cnid |-> Place[task[t].u].cnid, content |-> task[t].ct,
         time |-> today]}
  /\ nextCommentId' = nextCommentId + 1
  /\ task' = [task EXCEPT ![t] = [task[t] EXCEPT
                !.cmid = nextCommentId,
                !.pc = IF FetchedAt(task[t].ct, config.saveMode) # {}
                       THEN "asset" ELSE AfterStore]]
  /\ UNCHANGED <<bottle, nextBottleId, files, today,
                 config, bottleMap, sched>>

\* The comment table with every row left in place.
CommentsKept(id) == comment

\* remove('comment', { id: preview.id })
CommentsWithout(id) == {c \in comment : c.id # id}

\* The asset loop of the comment: fetch, write, set the content; the row is
\* removed by its id when the retries are used up.
PCAsset(t, out) ==
  /\ task[t].pc = "asset"
  /\ \E partial \in SUBSET WrittenFiles(task[t].ct, config.saveMode,
                                        "comment", task[t].cmid) :
     IF out = "ok"
     THEN /\ comment' =
               {IF c.id = task[t].cmid
                THEN [c EXCEPT !.content =
                        Externalized(task[t].ct, config.saveMode, "comment",
                                     task[t].cmid)]
                ELSE c : c \in comment}
          /\ files' = files \cup WrittenFiles(task[t].ct, config.saveMode,
                                              "comment", task[t].cmid)
          /\ task' = [task EXCEPT ![t] = [task[t] EXCEPT !.pc = AfterStore]]
     ELSE IF out = "exhausted"
     THEN /\ comment' = CommentsWithout(task[t].cmid)
          /\ files' = files \cup partial
          /\ task' = [task EXCEPT ![t] = Finish(t, "assetFailed")]
     ELSE /\ files' = files \cup partial
          /\ task' = [task EXCEPT ![t] = Finish(t, "cancelled")]
          /\ UNCHANGED comment
  /\ UNCHANGED <<bottle, nextBottleId, nextCommentId, today, config,
                 bottleMap, sched>>

\* The catch block of the preview loop: give up and remove the comment by
\* {bid, cid}, or wait before the next attempt.
\* A catch block without `retry++; if (retry > config.maxRetry)`: it waits
\* and tries again, keeping no count of its attempts.
PreviewCatchForever(t) ==
  /\ task' = [task EXCEPT ![t] =
                [task[t] EXCEPT !.pc = "sleep", !.log = <<>>]]
  /\ UNCHANGED comment

PreviewCatch(t) ==
  LET rec == [task[t] EXCEPT !.log =
                Append(task[t].log, Try(<<"preview", 0>>, task[t].cmid, FALSE))]
  IN IF Exhausted(rec.retry + 1)
     THEN /\ comment' = CommentsAfterDelete(rec.bid, rec.cid)
          /\ task' = [task EXCEPT ![t] =
                        DoneWith(rec, "postComment", "previewFailed")]
     ELSE /\ task' = [task EXCEPT ![t] = [rec EXCEPT
                        !.pc = "sleep", !.retry = rec.retry + 1]]
          /\ UNCHANGED comment

\* await session.bot.sendMessage(channel, preview of the comment)
PCPreview(t, sent) ==
  /\ task[t].pc = "preview"
  /\ IF sent
     THEN /\ task' = [task EXCEPT ![t] = [task[t] EXCEPT !.pc = "getCount"]]
          /\ UNCHANGED comment
     ELSE PreviewCatch(t)
  /\ UNCHANGED <<bottle, nextBottleId, nextCommentId, files, today,
                 config, bottleMap, sched>>

\* await ctx.sleep(config.retryInterval)
PCSleep(t, interrupted) ==
  /\ task[t].pc = "sleep"
  /\ LET rec == [task[t] EXCEPT !.log =
                   Append(task[t].log, Wait(<<"preview", 0>>))]
     IN task' = [task EXCEPT ![t] =
                   IF interrupted
                   THEN DoneWith(rec, "postComment", "cancelled")
                   ELSE [rec EXCEPT !.pc = "preview"]]
  /\ UNCHANGED <<bottle, comment, nextBottleId, nextCommentId, files, today,
                 config, bottleMap, sched>>

\* (await get("bottle", {id}))[0].commentCount + 1, inside the try block: a
\* missing row throws into the catch block.
PCGetCount(t) ==
  /\ task[t].pc = "getCount"
  /\ IF BottlesById(task[t].bid) = {}
     THEN PreviewCatch(t)
     ELSE /\ task' = [task EXCEPT ![t] = [task[t] EXCEPT
                        !.pc = "setCount",
                        !.count = CountWithPreview(BottlesById(task[t].bid)),
                        !.log = Append(task[t].log,
                                       Try(<<"preview", 0>>, task[t].cmid,
                                           TRUE))]]
          /\ UNCHANGED comment
  /\ UNCHANGED <<bottle, nextBottleId, nextCommentId, files, today,
                 config, bottleMap, sched>>

\* await session.bot.sendMessage(channel, '你的评论已经扔出去了！'): not in a
\* try block, so a failing send ends the handler.
PCNotice(t, sent) ==
  /\ task[t].pc = "notice"
  /\ task' = [task EXCEPT ![t] =
                IF sent THEN [task[t] EXCEPT !.pc = "getLength"]
                ELSE Finish(t, "error")]
  /\ UNCHANGED <<bottle, comment, nextBottleId, nextCommentId, files, today,
                 config, bottleMap, sched>>

\* (await get("bottle", {id})).length + 1
PCGetLength(t) ==
  /\ task[t].pc = "getLength"
  /\ task' = [task EXCEPT ![t] = [task[t] EXCEPT
                !.pc = "setCount",
                !.count = CountWithoutPreview(BottlesById(task[t].bid))]]
  /\ UNCHANGED <<bottle, comment, nextBottleId, nextCommentId, files, today,
                 config, bottleMap, sched>>

\* await set("bottle", {id}, {commentCount: ...})
PCSetCount(t) ==
  /\ task[t].pc = "setCount"
  /\ bottle' = {IF b.id = task[t].bid
                THEN [b EXCEPT !.commentCount = task[t].count]
                ELSE b : b \in bottle}
  /\ task' = [task EXCEPT ![t] =
                Finish(t, IF config.preview THEN "previewSent" ELSE "ok")]
  /\ UNCHANGED <<comment, nextBottleId, nextCommentId, files, today,
                 config, bottleMap, sched>>

(***************************************************************************)
(* Specifications.  What the requesters send is drawn from small sets, and *)
(* each specification fixes the part of the configuration it explores.     *)
(***************************************************************************)
Text(n) == IF n = 0 THEN <<>> ELSE <<T(n)>>
Image == <<Media("img", Url("a"))>>
Audio == <<Media("audio", Url("b"))>>

BottleIds == 1..MaxBottles
Cids == 1..MaxComments

\* The steps of a comment handler in flight when nothing is fetched.
PostCommentStep(t) ==
  \/ PCGetReply(t)
  \/ PCGetComments(t)
  \/ PCCreate(t)
  \/ \E sent \in BOOLEAN : PCPreview(t, sent)
  \/ \E interrupted \in BOOLEAN : PCSleep(t, interrupted)
  \/ PCGetCount(t)
  \/ \E sent \in BOOLEAN : PCNotice(t, sent)
  \/ PCGetLength(t)
  \/ PCSetCount(t)

(***************************************************************************)
(* Spec: one invocation at a time (no interleaving), every request sent by *)
(* the same user; the assets stay remote (saveMode "url"), the preview is  *)
(* on or off.                                                              *)
(***************************************************************************)
Init == InitWith(Configs(BOOLEAN, {"url"}, {TRUE}))

Next ==
  \/ \E pOut \in RetryOutcomes :
       PostBottle(1, "bob", Text(1), NoQuote, NoTitle, "ok", pOut)
  \/ \E id \in BottleIds, rid \in {0, 1} : PCStart(1, "bob", id, rid, Text(1))
  \/ PostCommentStep(1)
  \/ \E id \in BottleIds : DeleteBottle(1, "bob", id)
  \/ \E id \in BottleIds, cid \in Cids : DeleteComment(1, "bob", id, cid)
  \/ \E first \in {0, 1}, reply \in BOOLEAN, broken \in SUBSET comment :
       AuditComments(1, "alice", first, first * MaxBottles, TRUE, broken,
                     FALSE, reply)

Spec == Init /\ [][Next]_vars

(***************************************************************************)
(* SpecReliable: as Spec, with a transport whose sends all succeed, so     *)
(* that every handler runs to its normal end.                              *)
(***************************************************************************)
PostCommentStepReliable(t) ==
  \/ PCGetReply(t)
  \/ PCGetComments(t)
  \/ PCCreate(t)
  \/ PCPreview(t, TRUE)
  \/ PCGetCount(t)
  \/ PCNotice(t, TRUE)
  \/ PCGetLength(t)
  \/ PCSetCount(t)

NextReliable ==
  \/ PostBottle(1, "bob", Text(1), NoQuote, NoTitle, "ok", "ok")
  \/ \E id \in BottleIds, rid \in {0, 1} : PCStart(1, "bob", id, rid, Text(1))
  \/ PostCommentStepReliable(1)
  \/ \E id \in BottleIds : DeleteBottle(1, "bob", id)
  \/ \E id \in BottleIds, cid \in Cids : DeleteComment(1, "bob", id, cid)
  \/ \E first \in {0, 1}, reply \in BOOLEAN, broken \in SUBSET comment :
       AuditComments(1, "alice", first, first * MaxBottles, TRUE, broken,
                     FALSE, reply)

SpecReliable == Init /\ [][NextReliable]_vars

(***************************************************************************)
(* Claims about the comment counter and the comment numbers.               *)
(***************************************************************************)
CidsOf(bid) == {c.cid : c \in CommentsOf(bid)}

\* C1: whenever no operation is in flight, every bottle's commentCount
\* equals the number of comment rows whose bid is the bottle's id.
C1_CountEqualsRows ==
  Free(1) =>
    \A b \in bottle : b.commentCount = Cardinality(CommentsOf(b.id))

\* A comment handler returns in this step, leaving the row it created.
EndsPersisted(t) ==
  /\ task[t].op = "postComment"
  /\ ~Free(t)
  /\ task'[t].pc = "done"
  /\ \E c \in comment' : c.id = task[t].cmid

\* C2: a post-comment that ends with its comment row persisted has raised
\* the bottle's commentCount by exactly 1 over its value when the
\* operation began, with the preview enabled and with it disabled.
C2_CountRaisedByOne ==
  [][EndsPersisted(1) =>
       \A b \in bottle' :
         b.id = task[1].bid => b.commentCount = task[1].bcount + 1]_vars

RemovesBelowMax(id) ==
  \E c \in CommentsOf(id) :
    /\ c \notin comment'
    /\ \E d \in CommentsOf(id) : d.cid > c.cid

C6_CidIsMaxPlusOne ==
  [][\A c \in comment' \ comment :
       LET prior == {x \in comment : x.bid = c.bid}
       IN \/ prior = {} /\ c.cid = 1
          \/ \E m \in prior :
               /\ \A x \in prior : x.cid <= m.cid
               /\ c.cid = m.cid + 1]_vars

\* A comment was numbered 3 on a bottle whose only other comment is 2: the
\* number follows the highest cid, not the number of rows.
C6_Witness ==
  /\ Free(1)
  /\ \E id \in BottleIds :
       /\ CidsOf(id) = {2, 3}
       /\ Cardinality(CommentsOf(id)) = 2

(***************************************************************************)
(* SpecConc: two invocations in flight at once, interleaving at their      *)
(* suspension points; the preview is on and the transport reliable, so     *)
(* that every comment handler runs to its normal end.                      *)
(***************************************************************************)
InitConc == InitWith(Configs({TRUE}, {"url"}, {TRUE}))

PostCommentStepConc(t) ==
  \/ PCGetReply(t)
  \/ PCGetComments(t)
  \/ PCCreate(t)
  \/ PCPreview(t, TRUE)
  \/ PCGetCount(t)
  \/ PCSetCount(t)

NextConc ==
  \E t \in Tasks :
    \/ PostBottle(t, "bob", Text(1), NoQuote, NoTitle, "ok", "ok")
    \/ \E id \in BottleIds, rid \in {0, 1} :
         PCStart(t, "bob", id, rid, Text(1))
    \/ PostCommentStepConc(t)

SpecConc == InitConc /\ [][NextConc]_vars

\* Both invocations are comment handlers that have returned after the
\* preview was sent and the count written.
BothCommented ==
  \A t \in Tasks : Ended(t, "postComment", "previewSent")

\* C3: once two interleaved post-comments have both completed with their
\* comment persisted, every bottle's commentCount equals the number of its
\* comment rows: no increment is lost.
C3_NoLostIncrement ==
  BothCommented =>
    \A b \in bottle : b.commentCount = Cardinality(CommentsOf(b.id))

\* C4: in every reachable state, interleavings included, no two comment
\* rows of one bottle have the same cid.
C4_CidUniquePerBottle ==
  \A c, d \in comment : (c.bid = d.bid /\ c.cid = d.cid) => c = d

(***************************************************************************)
(* SpecFiles: one invocation at a time, assets stored as local files       *)
(* (saveMode "file"), no preview, fetches and sends that succeed.  Every   *)
(* bottle and every comment carries a picture.                             *)
(***************************************************************************)
InitFiles == InitWith(Configs({FALSE}, {"file"}, {TRUE}))

Pictures == {Image, Concat(Text(1), Image)}

NextFiles ==
  \/ \E u \in Users, m \in Pictures :
       PostBottle(1, u, m, NoQuote, NoTitle, "ok", "ok")
  \/ \E id \in BottleIds, m \in Pictures : PCStart(1, "bob", id, 0, m)
  \/ PCGetComments(1)
  \/ PCCreate(1)
  \/ PCAsset(1, "ok")
  \/ PCNotice(1, TRUE)
  \/ PCGetLength(1)
  \/ PCSetCount(1)
  \/ \E u \in Users, id \in BottleIds : DeleteBottle(1, u, id)

SpecFiles == InitFiles /\ [][NextFiles]_vars

\* The content has a media element whose src is the local file f.
RefersTo(content, f) ==
  \E i \in 1..Len(content) :
    /\ content[i].type \in {"img", "audio", "video"}
    /\ content[i].src = f
    /\ f[1] = "file"

\* C10: after a delete-bottle by the owner or an operator has completed, no
\* bottle row has that id, no comment row has that bid, and every local
\* file the bottle's content or one of its comments' contents referred to
\* is gone from the asset directory.
C10_DeleteBottleCascades ==
  [][\A u \in Users, id \in BottleIds :
       (/\ DeleteBottle(1, u, id)
        /\ \E b \in bottle : b.id = id /\ (u \in Managers \/ u = b.uid)
        /\ task'[1].result = "ok")
       => /\ \A b \in bottle' : b.id # id
          /\ \A c \in comment' : c.bid # id
          /\ \A f \in files :
               (\/ \E b \in bottle : b.id = id /\ RefersTo(b.content, f)
                \/ \E c \in comment : c.bid = id /\ RefersTo(c.content, f))
               => f \notin files']_vars

\* The only bottle ever posted had comments, every row had its picture on
\* disk, and after its deletion no row and no file is left.
C10_Witness ==
  /\ Ended(1, "deleteBottle", "ok")
  /\ nextBottleId = 2
  /\ nextCommentId > 2
  /\ bottle = {}
  /\ comment = {}
  /\ files = {}

(***************************************************************************)
(* SpecValid: one invocation at a time, no preview, sends that succeed.    *)
(* bob posts and comments; the requests include every kind the handlers    *)
(* refuse: no content, too short, too long, audio in a comment, a numeric  *)
(* title, a bottle or comment that is not there, and carol (neither owner  *)
(* nor operator) acting on bob's rows.                                     *)
(***************************************************************************)
InitValid == InitWith(Configs({FALSE}, {"url"}, BOOLEAN))

OthersQuote == [user |-> "alice", content |-> Text(1)]
EmptyQuote == [user |-> "bob", content |-> <<>>]

\* The lengths at and around the two limits.
Lengths == {0, 1, MaxLength, MaxLength + 1}

NextValid ==
  \/ \E n \in Lengths, title \in {NoTitle, <<"1">>} :
       PostBottle(1, "bob", Text(n), NoQuote, title, "ok", "ok")
  \/ \E q \in {OthersQuote, EmptyQuote} :
       PostBottle(1, "bob", Text(1), q, NoTitle, "ok", "ok")
  \/ \E rid \in {0, 1}, ct \in {Text(0), Text(1), Text(MaxLength + 1), Audio} :
       PCStart(1, "bob", 1, rid, ct)
  \/ PCGetReply(1)
  \/ PCGetComments(1)
  \/ PCCreate(1)
  \/ PCNotice(1, TRUE)
  \/ PCGetLength(1)
  \/ PCSetCount(1)
  \/ \E u \in {"bob", "carol"}, id \in BottleIds : DeleteBottle(1, u, id)
  \/ \E u \in {"bob", "carol"}, id \in BottleIds, cid \in {1, 2} :
       DeleteComment(1, u, id, cid)
  \/ \E u \in {"bob", "carol"}, id \in BottleIds, name \in {<<"1">>, <<"a">>} :
       RenameBottle(1, u, id, name)
  \/ \E u \in {"alice", "carol"}, id \in BottleIds : SetFeatured(1, u, id)

SpecValid == InitValid /\ [][NextValid]_vars

\* What a handler answers when it refuses a request or does not find its
\* target.
ErrorResults ==
  {"noContent", "tooShort", "tooLong", "badMedia", "numericTitle",
   "noPermission", "bottleNotFound", "commentNotFound"}

\* C7: whenever post-bottle, post-comment, delete-bottle, delete-comment,
\* rename-bottle or set-featured ends by reporting a validation error or a
\* not-found error, the bottle and comment tables are what they were before
\* the operation started.
C7_ErrorsLeaveTablesUnchanged ==
  [][(/\ task'[1].pc = "done"
      /\ task'[1].op \in {"postBottle", "postComment", "deleteBottle",
                          "deleteComment", "rename", "setFeatured"}
      /\ task'[1].result \in ErrorResults)
     => (bottle' = bottle /\ comment' = comment)]_vars

\* C8: with nothing to externalize, post-bottle rejects content of length
\* 0, accepts content of length maxLength and rejects content of length
\* maxLength + 1; a rejected post adds no bottle, an accepted one adds the
\* bottle with that content.
C8_LengthBoundaries ==
  [][\A n \in Lengths :
       PostBottle(1, "bob", Text(n), NoQuote, NoTitle, "ok", "ok")
       => IF n >= 1 /\ n <= MaxLength
          THEN /\ task'[1].result = "ok"
               /\ \E b \in bottle' : b.id = nextBottleId /\ b.content = Text(n)
          ELSE /\ task'[1].result \in ErrorResults
               /\ bottle' = bottle]_vars

(***************************************************************************)
(* SpecNames: bottles posted with and without a title, and renamed, one    *)
(* invocation at a time.  Titles and names are all the strings of at most  *)
(* MaxTitle characters over digits, a letter, the exponent letter and the  *)
(* sign.                                                                   *)
(***************************************************************************)
TitleChars == Digits \cup {"a", "e", "-"}
Names == UNION {[1..n -> TitleChars] : n \in 0..MaxTitle}
Titles == Names \cup {NoTitle}

InitNames == InitWith(Configs({FALSE}, {"url"}, {TRUE}))

NextNames ==
  \/ \E title \in Titles :
       PostBottle(1, "bob", Text(1), NoQuote, title, "ok", "ok")
  \/ \E u \in {"bob", "carol"}, id \in BottleIds, name \in Names :
       RenameBottle(1, u, id, name)

SpecNames == InitNames /\ [][NextNames]_vars

\* The string is not empty and every character of it is a digit.
PurelyNumeric(s) == Len(s) > 0 /\ \A i \in 1..Len(s) : s[i] \in {"0", "1"}

\* C9: no bottle row ever has a non-empty purely numeric name, and a
\* post-bottle or rename-bottle that is given a purely numeric title is
\* refused and leaves the bottle table as it was.
C9_NoNumericName ==
  /\ [](\A b \in bottle : ~PurelyNumeric(b.name))
  /\ [][\A title \in {s \in Names : PurelyNumeric(s)} :
          /\ PostBottle(1, "bob", Text(1), NoQuote, title, "ok", "ok")
               => (task'[1].result = "numericTitle" /\ bottle' = bottle)
          /\ \A u \in {"bob", "carol"}, id \in BottleIds :
               (RenameBottle(1, u, id, title) /\ BottlesById(id) # {})
               => (task'[1].result \in {"numericTitle", "noPermission"}
                   /\ bottle' = bottle)]_vars

\* The owner's rename to a numeric name was refused; the bottle keeps the
\* title it was posted with, one that has a digit in it.
C9_Witness ==
  /\ task[1] = Done("rename", "numericTitle")
  /\ \E b \in bottle : b.name = <<"1", "a">>

(***************************************************************************)
(* 漂流瓶.捞漂流瓶 (draw a bottle).  The argument is a string: absent or   *)
(* empty, a number (an id), or anything else (a pattern matched against    *)
(* the names).  The rows found are a local of the invocation: the retry    *)
(* loop renders one of them, picked at random at every attempt.            *)
(***************************************************************************)
\* The decimal value of the digits of s from position i up to position j.
RECURSIVE DigitsValue(_, _, _)
DigitsValue(s, i, j) ==
  IF i > j THEN 0
  ELSE 10 * DigitsValue(s, i, j - 1) + (IF s[j] = "1" THEN 1 ELSE 0)

RECURSIVE Power10(_)
Power10(n) == IF n = 0 THEN 1 ELSE 10 * Power10(n - 1)

\* +s for a string that is a number: sign, digits, optional exponent.
NumberOf(s) ==
  LET from == IF s[1] = "-" THEN 2 ELSE 1
      es == {i \in from..Len(s) : s[i] = "e"}
      mantissa == IF es = {} THEN DigitsValue(s, from, Len(s))
                  ELSE LET e == CHOOSE i \in es : TRUE
                       IN DigitsValue(s, from, e - 1)
                            * Power10(DigitsValue(s, e + 1, Len(s)))
  IN IF s[1] = "-" THEN 0 - mantissa ELSE mantissa

\* new RegExp(pattern) finds a match in name: for a pattern of plain
\* characters, name contains it.
Contains(name, pattern) ==
  \E i \in 0..(Len(name) - Len(pattern)) :
    SubSeq(name, i + 1, i + Len(pattern)) = pattern

\* The rows with a matching name.
Matching(pattern) == {b \in bottle : Contains(b.name, pattern)}

\* orderBy('id', 'asc')
RECURSIVE SortedIds(_)
SortedIds(S) ==
  IF S = {} THEN <<>>
  ELSE LET m == CHOOSE x \in S : \A y \in S : x <= y
       IN <<m>> \o SortedIds(S \ {m})

\* .limit(limit !== 0 ? limit : Infinity).offset(limit !== 0 ?
\* ((page ?? 1) - 1) * limit : 0); page 0 stands for no page argument.
PageSlice(ids, limit, page) ==
  IF limit = 0 THEN ids
  ELSE LET offset == ((IF page = 0 THEN 1 ELSE page) - 1) * limit
           last == IF offset + limit < Len(ids) THEN offset + limit
                   ELSE Len(ids)
       IN SubSeq(ids, offset + 1, last)

\* The rows the lookup by name hands to the handler.
NameLookup(pattern, page) ==
  LET ids == PageSlice(SortedIds({b.id : b \in Matching(pattern)}),
                       config.bottleLimit, page)
  IN {b \in bottle : \E i \in 1..Len(ids) : ids[i] = b.id}

\* The handler is invoked and looks the bottles up.
DrawStart(t, u, bottleId, page) ==
  /\ Free(t)
  /\ LET random == bottleId = NoTitle \/ bottleId = <<>>
         found == IF random THEN bottle
                  ELSE IF IsNaNNumber(bottleId) THEN NameLookup(bottleId, page)
                  ELSE BottlesById(NumberOf(bottleId))
         rec == [Idle EXCEPT !.op = "draw", !.u = u, !.rid = page]
     IN task' = [task EXCEPT ![t] =
          IF found = {}
          THEN Done("draw", IF random THEN "noBottles" ELSE "bottleNotFound")
          ELSE IF ~random /\ Cardinality(found) > 1
          THEN [Done("draw", "listing") EXCEPT !.rows = found]
          ELSE [rec EXCEPT !.pc = "drawSend", !.rows = found]]
  /\ UNCHANGED <<bottle, comment, nextBottleId, nextCommentId, files, today,
                 config, bottleMap, sched>>

\* A message handle, by what the message shows: the bottle, which of the
\* handler's sends carried it, and its place in the array that send
\* returned.
Handle(id, send, n) == <<id, send, n>>

\* The sendMessage calls of one delivery: result, and result2 when the
\* content has audio or video and the display is not a forward record.
Sends(c, record) == IF ~record /\ HasAudioVideo(c) THEN 2 ELSE 1

\* The handles the transport returned for the first `sends` calls, k each.
Returned(id, sends, k) ==
  {Handle(id, j, n) : j \in 1..sends, n \in 1..k}

\* bottleMap.set((await session.bot.sendMessage(...))[0], bottle.id)
Mapped(id, sends, k) == {<<Handle(id, j, 1), id>> : j \in 1..sends}

\* One pass of the loop: pick a row, render it, send it.  Every successful
\* sendMessage returns k handles; `partial` says that result went out and
\* result2 threw.
DrawSendWith(t, sent, partial, k) ==
  /\ task[t].pc = "drawSend"
  /\ \E b \in task[t].rows :
       LET sends == Sends(b.content, config.messageRecord)
           through == IF sent THEN sends ELSE IF partial THEN 1 ELSE 0
           shown == Show(<<"draw", 0>>, b.id, sent,
                         DrawMessages(b.content, config.messageRecord,
                                      CommentsOf(b.id) # {}))
           rec == [task[t] EXCEPT !.bid = b.id,
                     !.log = Append(task[t].log,
                       [shown EXCEPT !.ids = Returned(b.id, through, k)])]
       IN /\ partial => (~sent /\ sends = 2)
          /\ bottleMap' = bottleMap \cup Mapped(b.id, through, k)
          /\ task' = [task EXCEPT ![t] =
               IF sent
               THEN [DoneWith(rec, "draw", "rendered") EXCEPT !.bid = b.id]
               ELSE IF Exhausted(rec.retry + 1)
               THEN DoneWith(rec, "draw", "sendFailed")
               ELSE [rec EXCEPT !.pc = "drawSleep", !.retry = rec.retry + 1]]
  /\ UNCHANGED <<bottle, comment, nextBottleId, nextCommentId, files, today,
                 config, sched>>

\* The same on a transport that returns one handle for every message.
DrawSend(t, sent) == DrawSendWith(t, sent, FALSE, 1)

\* await ctx.sleep(config.retryInterval)
DrawSleep(t, interrupted) ==
  /\ task[t].pc = "drawSleep"
  /\ LET rec == [task[t] EXCEPT !.log = Append(task[t].log, Wait(<<"draw", 0>>))]
     IN task' = [task EXCEPT ![t] =
          IF interrupted THEN DoneWith(rec, "draw", "cancelled")
          ELSE [rec EXCEPT !.pc = "drawSend"]]
  /\ UNCHANGED <<bottle, comment, nextBottleId, nextCommentId, files, today,
                 config, bottleMap, sched>>

(***************************************************************************)
(* SpecDraw: bottles are posted with short titles and drawn by name, by    *)
(* id or at random, with each page size and page argument, one invocation  *)
(* at a time.                                                              *)
(***************************************************************************)
MaxPage == 2         \* largest page argument and page size tried

DrawTitles == {NoTitle, <<"a">>, <<"a", "a">>, <<"e">>}
DrawArgs == {NoTitle, <<"1">>, <<"1", "0">>, <<"a">>, <<"a", "a">>, <<"e">>,
             <<"-">>}

InitDraw ==
  InitWith(WithBottleLimit(Configs({FALSE}, {"url"}, {TRUE}), 0..MaxPage))

NextDraw ==
  \/ \E title \in DrawTitles :
       PostBottle(1, "bob", Text(1), NoQuote, title, "ok", "ok")
  \/ \E arg \in DrawArgs, page \in 0..MaxPage : DrawStart(1, "bob", arg, page)
  \/ \E sent \in BOOLEAN : DrawSend(1, sent)
  \/ \E interrupted \in BOOLEAN : DrawSleep(1, interrupted)

SpecDraw == InitDraw /\ [][NextDraw]_vars

\* C11: for draw-bottle with a non-numeric identifier, any page argument
\* and any page size: when exactly one bottle's name matches, that bottle
\* is the one handed to rendering; when more than one matches, the answer
\* is the listing and nothing is rendered; when none matches, the answer
\* is "not found".
C11_DrawByName ==
  [][\A arg \in DrawArgs, page \in 0..MaxPage :
       (DrawStart(1, "bob", arg, page) /\ arg # NoTitle /\ IsNaNNumber(arg))
       => LET matches == {b \in bottle :
                            \E i \in 1..Len(b.name), j \in 1..Len(b.name) :
                              SubSeq(b.name, i, j) = arg}
          IN /\ Cardinality(matches) = 1
                  => task'[1].pc = "drawSend" /\ task'[1].rows = matches
             /\ Cardinality(matches) > 1
                  => task'[1].pc = "done" /\ task'[1].result = "listing"
             /\ matches = {}
                  => task'[1].pc = "done"
                       /\ task'[1].result = "bottleNotFound"]_vars

\* C12: with the preview enabled, once a post-bottle has ended, by whatever
\* path, the bottle row it created exists only if its preview was sent;
\* using up the retries removes the row.
C12_NoBottleWithoutPreview ==
  [][\A pOut \in RetryOutcomes :
       (/\ PostBottle(1, "bob", Text(1), NoQuote, NoTitle, "ok", pOut)
        /\ config.preview)
       => /\ (\E b \in bottle' : b.id = nextBottleId) => pOut = "ok"
          /\ pOut = "exhausted" => bottle' = bottle]_vars

(***************************************************************************)
(* SpecAssets: the assets are stored as files or inlined, and the fetches  *)
(* fail: the asset loop of a posted bottle or comment succeeds, uses up    *)
(* its retries, or is cancelled in a wait.  The sends succeed; one         *)
(* invocation at a time.                                                   *)
(***************************************************************************)
InitAssets == InitWith(Configs(BOOLEAN, {"file", "base64"}, {TRUE}))

NextAssets ==
  \/ \E aOut \in RetryOutcomes :
       PostBottle(1, "bob", Image, NoQuote, NoTitle, aOut, "ok")
  \/ \E id \in BottleIds, m \in {Image, Text(1)} : PCStart(1, "bob", id, 0, m)
  \/ PCGetComments(1)
  \/ PCCreate(1)
  \/ \E out \in RetryOutcomes : PCAsset(1, out)
  \/ PCPreview(1, TRUE)
  \/ PCGetCount(1)
  \/ PCNotice(1, TRUE)
  \/ PCGetLength(1)
  \/ PCSetCount(1)

SpecAssets == InitAssets /\ [][NextAssets]_vars

\* C13: when the asset loop of post-bottle or of post-comment uses up its
\* retries, the handler ends there (no preview, no success reply), the row
\* it had just created is no longer in the table, and for a comment the
\* bottle's commentCount is what it was when the operation started.
C13_AssetFailureRollsBack ==
  [][/\ PostBottle(1, "bob", Image, NoQuote, NoTitle, "exhausted", "ok")
         => /\ task'[1].pc = "done" /\ task'[1].result = "assetFailed"
            /\ \A b \in bottle' : b.id # nextBottleId
            /\ bottle' = bottle /\ comment' = comment
     /\ PCAsset(1, "exhausted")
         => /\ task'[1].pc = "done" /\ task'[1].result = "assetFailed"
            /\ \A c \in comment' : c.id # task[1].cmid
            /\ \A b \in bottle' :
                 b.id = task[1].bid => b.commentCount = task[1].bcount
            /\ bottle' = bottle]_vars

\* A bottle and then a comment were created and rolled back: the ids are
\* used up, the rows are gone.
C13_Witness ==
  /\ Ended(1, "postComment", "assetFailed")
  /\ nextBottleId = 3
  /\ Cardinality(bottle) = 1
  /\ nextCommentId = 2
  /\ comment = {}

(***************************************************************************)
(* SpecExpire: the days pass; bob posts bottles and comments, each with a  *)
(* picture stored as a local file; alice (an operator) and bob run the     *)
(* expiry sweep.  The sends succeed; one invocation at a time.             *)
(***************************************************************************)
InitExpire == InitWith(Configs({FALSE}, {"file"}, {TRUE}))

NextExpire ==
  \/ Tick
  \/ PostBottle(1, "bob", Image, NoQuote, NoTitle, "ok", "ok")
  \/ \E id \in BottleIds : PCStart(1, "bob", id, 0, Image)
  \/ PCGetComments(1)
  \/ PCCreate(1)
  \/ PCAsset(1, "ok")
  \/ PCNotice(1, TRUE)
  \/ PCGetLength(1)
  \/ PCSetCount(1)
  \/ \E u \in {"alice", "bob"}, days \in 1..MaxDay : Expire(1, u, days)

SpecExpire == InitExpire /\ [][NextExpire]_vars

\* C14: an expiry sweep with threshold N run by an operator on day D
\* removes exactly the bottles with D - createdAt > N and all of their
\* comments; every bottle with D - createdAt <= N, and every comment of
\* such a bottle, stays.
C14_ExpireExactlyOlder ==
  [][\A days \in 1..MaxDay :
       Expire(1, "alice", days)
       => /\ \A b \in bottle : (b \in bottle') <=> (today - b.time <= days)
          /\ bottle' \subseteq bottle
          /\ \A c \in comment :
               (c \in comment')
                 <=> (\E b \in bottle : b.id = c.bid /\ today - b.time <= days)
          /\ comment' \subseteq comment]_vars

\* On day 2 a sweep removed a bottle; a bottle posted on day 1, of age
\* exactly N = 1, is still there with its comments.
C14_Witness ==
  /\ Ended(1, "expire", "ok")
  /\ today = 2
  /\ nextBottleId = 3
  /\ \E b \in bottle : b.time = 1 /\ CommentsOf(b.id) # {}

\* C15: the expiry sweep unlinks, for every bottle it removes, every local
\* file the bottle's content or one of its comments' contents refers to.
C15_ExpireUnlinksFiles ==
  [][\A days \in 1..MaxDay :
       Expire(1, "alice", days)
       => \A b \in bottle \ bottle', f \in files :
            (\/ RefersTo(b.content, f)
             \/ \E c \in comment : c.bid = b.id /\ RefersTo(c.content, f))
            => f \notin files']_vars

(***************************************************************************)
(* The broadcast loop (ctx.on("ready") when config.randomSend).  sched.pc  *)
(* is where the loop stands: "off" (not started), "idle" (top of the       *)
(* loop: the wait is drawn and the countdown started), "countdown"         *)
(* (awaiting ctx.sleep(wait * 1000)), then the dispatch, bot by bot:       *)
(* "enum" (awaiting the guild iterator), "get" (awaiting the bottles),     *)
(* "try" (an attempt is about to run), "sleep" (awaiting the retry wait);  *)
(* "stopped" (returned because a wait was cancelled) and "crashed" (an     *)
(* exception outside every try block ended the handler).  sched.disposed   *)
(* is the cancellation signal: the context was disposed, which rejects the *)
(* ctx.sleep that is pending; nothing else in the loop looks at it.        *)
(***************************************************************************)
Dispatching == {"enum", "get", "try", "sleep"}

\* for (let bot of ctx.bots), from bot i on: the first bot whose platform
\* is not skipped, or the end of the dispatch and the top of the loop.
RECURSIVE AtBot(_, _)
AtBot(rec, i) ==
  IF i \notin Bots THEN [rec EXCEPT !.pc = "idle", !.bot = 0, !.retry = 0,
                                    !.guilds = FALSE, !.rows = {}]
  ELSE IF config.guildId[i] = "none" THEN AtBot(rec, i + 1)
  ELSE [rec EXCEPT !.bot = i, !.retry = 0, !.rows = {},
          !.guilds = (config.guildId[i] = "list"),
          !.pc = IF config.guildId[i] = "all" THEN "enum" ELSE "get"]

\* The rest of the cycle is given up.
CycleAbandoned(rec) == AtBot(rec, 0)

\* break: the while loop of this bot is left, the for loop goes on.
NextBot(rec) == AtBot(rec, rec.bot + 1)

\* ctx.on("ready", ...)
SchedReady ==
  /\ sched.pc = "off"
  /\ config.randomSend
  /\ sched' = [sched EXCEPT !.pc = "idle"]
  /\ UNCHANGED <<bottle, comment, nextBottleId, nextCommentId, files, today,
                 config, bottleMap, task>>

\* let wait = Random.int(...); countdown(wait); the loop starts to wait.
SchedWait ==
  /\ sched.pc = "idle"
  /\ sched' = [sched EXCEPT !.pc = "countdown", !.log = <<>>]
  /\ UNCHANGED <<bottle, comment, nextBottleId, nextCommentId, files, today,
                 config, bottleMap, task>>

\* await ctx.sleep(wait * 1000): it elapses, or it is cancelled.
SchedWake(disposed) ==
  /\ sched.pc = "countdown"
  /\ sched' = IF disposed
              THEN [sched EXCEPT !.pc = "stopped", !.disposed = TRUE]
              ELSE AtBot(sched, 1)
  /\ UNCHANGED <<bottle, comment, nextBottleId, nextCommentId, files, today,
                 config, bottleMap, task>>

\* for await (let i of bot.getGuildIter()) guilds.push(i): outside every
\* try block.
SchedEnum(seen, threw) ==
  /\ sched.pc = "enum"
  /\ sched' = IF threw THEN [sched EXCEPT !.pc = "crashed"]
              ELSE [sched EXCEPT !.pc = "get", !.guilds = seen]
  /\ UNCHANGED <<bottle, comment, nextBottleId, nextCommentId, files, today,
                 config, bottleMap, task>>

\* bottles = await ctx.database.get("bottle", {}); let retry = 0
SchedGet ==
  /\ sched.pc = "get"
  /\ sched' = [sched EXCEPT !.pc = "try", !.rows = bottle, !.retry = 0]
  /\ UNCHANGED <<bottle, comment, nextBottleId, nextCommentId, files, today,
                 config, bottleMap, task>>

\* The context is disposed while the loop awaits an enumeration, the store
\* or a send: no wait is pending, and the loop goes on.
SchedDispose ==
  /\ sched.pc \in Dispatching \ {"sleep"}
  /\ ~sched.disposed
  /\ sched' = [sched EXCEPT !.disposed = TRUE]
  /\ UNCHANGED <<bottle, comment, nextBottleId, nextCommentId, files, today,
                 config, bottleMap, task>>

\* One pass of the while loop: a random bottle (destructuring undefined
\* throws when there is none), a random guild (Random.pick([]).id throws
\* when there is none), the send to the guild and, when it fails, the send
\* to a channel of the guild; then the catch block.
SchedTry(primary, fallback) ==
  /\ sched.pc = "try"
  /\ IF sched.rows = {} \/ ~sched.guilds
     THEN sched' = [sched EXCEPT !.pc = "crashed"]
     ELSE \E b \in sched.rows :
            LET ok == primary \/ fallback
                rec == [sched EXCEPT !.log =
                          Append(sched.log,
                                 Show(<<"broadcast", sched.bot>>, b.id, ok,
                                      BroadcastMessages(b.content)))]
            IN sched' = IF ok \/ Exhausted(rec.retry + 1)
                        THEN NextBot(rec)
                        ELSE [rec EXCEPT !.pc = "sleep",
                                         !.retry = rec.retry + 1]
  /\ UNCHANGED <<bottle, comment, nextBottleId, nextCommentId, files, today,
                 config, bottleMap, task>>

\* await ctx.sleep(config.retryInterval)
SchedSleep(disposed) ==
  /\ sched.pc = "sleep"
  /\ LET rec == [sched EXCEPT !.log =
                   Append(sched.log, Wait(<<"broadcast", sched.bot>>))]
     IN sched' = IF disposed
                 THEN [rec EXCEPT !.pc = "stopped", !.disposed = TRUE]
                 ELSE [rec EXCEPT !.pc = "try"]
  /\ UNCHANGED <<bottle, comment, nextBottleId, nextCommentId, files, today,
                 config, bottleMap, task>>

(***************************************************************************)
(* 漂流瓶.删除无效瓶子 (audit bottles): after a confirmation, every bottle  *)
(* in the id range is sent to the requester's channel, one after the       *)
(* other with a pause of options.delay; those whose send fails maxRetry +  *)
(* 1 times are recorded, and removed if the requester answers the second   *)
(* prompt with the delete keyword.                                         *)
(***************************************************************************)
\* for (let bottle of bottles): the row the loop is at.
FirstRow(rows) == CHOOSE b \in rows : \A x \in rows : b.id <= x.id

\* The next bottle of the for loop, or what follows the loop.
ABAdvance(rec) ==
  LET rest == rec.rows \ {FirstRow(rec.rows)}
  IN IF rest # {}
     THEN [rec EXCEPT !.pc = "auditSend", !.rows = rest, !.retry = 0]
     ELSE IF rec.broken = {}
     THEN DoneWith(rec, "auditBottles", "noneBroken")
     ELSE [rec EXCEPT !.pc = "auditPrompt", !.rows = {}, !.retry = 0]

ABStart(t, u, first, last, confirm) ==
  /\ Free(t)
  /\ LET end(result) == DoneFor(u, "auditBottles", result)
         found == {b \in bottle : InRange(b.id, first, last)}
         rec == [Idle EXCEPT !.op = "auditBottles", !.u = u, !.rows = found,
                             !.pc = "auditSend", !.answer = confirm]
     IN task' = [task EXCEPT ![t] =
          IF ~IsManager(u) THEN end("noPermission")
          ELSE IF first > 0 /\ last = 0 THEN end("needEnd")
          ELSE IF first > last THEN end("badRange")
          ELSE IF ~Confirmed(confirm) THEN end("cancelled")
          ELSE IF found = {} THEN end("noneBroken")
          ELSE rec]
  /\ UNCHANGED <<bottle, comment, nextBottleId, nextCommentId, files, today,
                 config, bottleMap, sched>>

\* await session.bot.sendMessage(session.event.channel.id, result), and the
\* catch block.
ABSend(t, sent) ==
  /\ task[t].pc = "auditSend"
  /\ LET b == FirstRow(task[t].rows)
         rec == [task[t] EXCEPT !.log =
                   Append(task[t].log,
                          Show(<<"audit", b.id>>, b.id, sent,
                               AuditMessages(b.content)))]
     IN task' = [task EXCEPT ![t] =
          IF sent THEN [rec EXCEPT !.pc = "auditDelay"]
          ELSE IF Exhausted(rec.retry + 1)
          THEN ABAdvance([rec EXCEPT !.broken = rec.broken \cup {b.id}])
          ELSE [rec EXCEPT !.pc = "auditSleep", !.retry = rec.retry + 1]]
  /\ UNCHANGED <<bottle, comment, nextBottleId, nextCommentId, files, today,
                 config, bottleMap, sched>>

\* await ctx.sleep(options.delay)
ABDelay(t, interrupted) ==
  /\ task[t].pc = "auditDelay"
  /\ task' = [task EXCEPT ![t] =
                IF interrupted
                THEN DoneWith(task[t], "auditBottles", "interrupted")
                ELSE ABAdvance(task[t])]
  /\ UNCHANGED <<bottle, comment, nextBottleId, nextCommentId, files, today,
                 config, bottleMap, sched>>

\* await ctx.sleep(config.retryInterval)
ABSleep(t, interrupted) ==
  /\ task[t].pc = "auditSleep"
  /\ LET b == FirstRow(task[t].rows)
         rec == [task[t] EXCEPT !.log =
                   Append(task[t].log, Wait(<<"audit", b.id>>))]
     IN task' = [task EXCEPT ![t] =
          IF interrupted THEN DoneWith(rec, "auditBottles", "interrupted")
          ELSE [rec EXCEPT !.pc = "auditSend"]]
  /\ UNCHANGED <<bottle, comment, nextBottleId, nextCommentId, files, today,
                 config, bottleMap, sched>>

\* Every bottle of the range goes, sent or not.
RangePurged(broken) == {}

\* remove("bottle", { id: { $in: brokenBottle } })
PurgedBottles(broken) == {b \in bottle : b.id \notin broken}

\* let reply = await session.prompt(30000), then the removal
ABPrompt(t, reply) ==
  /\ task[t].pc = "auditPrompt"
  /\ IF reply
     THEN /\ bottle' = PurgedBottles(task[t].broken)
          /\ task' = [task EXCEPT
                        ![t] = DoneWith(task[t], "auditBottles", "purged")]
     ELSE /\ task' = [task EXCEPT ![t] =
                        DoneWith(task[t], "auditBottles", "purgeCancelled")]
          /\ UNCHANGED bottle
  /\ UNCHANGED <<comment, nextBottleId, nextCommentId, files, today,
                 config, bottleMap, sched>>

(***************************************************************************)
(* 漂流瓶.删除无效评论 (audit comments), step by step: for each bottle of   *)
(* the range its comments are read and sent one after the other; the ids   *)
(* of those whose send fails maxRetry + 1 times are recorded, and these    *)
(* rows are removed if the requester answers the second prompt with the    *)
(* delete keyword.                                                         *)
(***************************************************************************)
\* The next comment of the inner loop, the next bottle of the outer loop, or
\* what follows the loops.
ACAdvance(rec) ==
  LET crest == IF rec.crows = {} THEN {}
               ELSE rec.crows \ {FirstRow(rec.crows)}
      brest == rec.rows \ {FirstRow(rec.rows)}
  IN IF crest # {}
     THEN [rec EXCEPT !.pc = "acSend", !.crows = crest, !.retry = 0]
     ELSE IF brest # {}
     THEN [rec EXCEPT !.pc = "acGet", !.crows = {}, !.rows = brest,
                      !.retry = 0]
     ELSE IF rec.broken = {}
     THEN DoneWith(rec, "auditComments", "noneBroken")
     ELSE [rec EXCEPT !.pc = "acPrompt", !.crows = {}, !.rows = {},
                      !.retry = 0]

ACStart(t, u, first, last, confirm) ==
  /\ Free(t)
  /\ LET end(result) == DoneFor(u, "auditComments", result)
         found == {b \in bottle : InRange(b.id, first, last)}
         rec == [Idle EXCEPT !.op = "auditComments", !.u = u, !.rows = found,
                             !.pc = "acGet", !.answer = confirm]
     IN task' = [task EXCEPT ![t] =
          IF ~IsManager(u) THEN end("noPermission")
          ELSE IF first > 0 /\ last = 0 THEN end("needEnd")
          ELSE IF first > last THEN end("badRange")
          ELSE IF ~Confirmed(confirm) THEN end("cancelled")
          ELSE IF found = {} THEN end("noneBroken")
          ELSE rec]
  /\ UNCHANGED <<bottle, comment, nextBottleId, nextCommentId, files, today,
                 config, bottleMap, sched>>

\* let comments = await ctx.database.get('comment', { bid: bottle.id })
ACGet(t) ==
  /\ task[t].pc = "acGet"
  /\ LET found == CommentsOf(FirstRow(task[t].rows).id)
         rec == [task[t] EXCEPT !.crows = found]
     IN task' = [task EXCEPT ![t] =
          IF found = {} THEN ACAdvance(rec) ELSE [rec EXCEPT !.pc = "acSend"]]
  /\ UNCHANGED <<bottle, comment, nextBottleId, nextCommentId, files, today,
                 config, bottleMap, sched>>

\* await session.bot.sendMessage(channel, the comment), and the catch block.
ACSend(t, sent) ==
  /\ task[t].pc = "acSend"
  /\ LET c == FirstRow(task[t].crows)
         rec == [task[t] EXCEPT !.log =
                   Append(task[t].log,
                          Try(<<"auditComment", c.id>>, c.id, sent))]
     IN task' = [task EXCEPT ![t] =
          IF sent THEN [rec EXCEPT !.pc = "acDelay"]
          ELSE IF Exhausted(rec.retry + 1)
          THEN ACAdvance([rec EXCEPT !.broken = rec.broken \cup {c.id}])
          ELSE [rec EXCEPT !.pc = "acSleep", !.retry = rec.retry + 1]]
  /\ UNCHANGED <<bottle, comment, nextBottleId, nextCommentId, files, today,
                 config, bottleMap, sched>>

\* await ctx.sleep(options.delay)
ACDelay(t, interrupted) ==
  /\ task[t].pc = "acDelay"
  /\ task' = [task EXCEPT ![t] =
                IF interrupted
                THEN DoneWith(task[t], "auditComments", "interrupted")
                ELSE ACAdvance(task[t])]
  /\ UNCHANGED <<bottle, comment, nextBottleId, nextCommentId, files, today,
                 config, bottleMap, sched>>

\* await ctx.sleep(config.retryInterval)
ACSleep(t, interrupted) ==
  /\ task[t].pc = "acSleep"
  /\ LET c == FirstRow(task[t].crows)
         rec == [task[t] EXCEPT !.log =
                   Append(task[t].log, Wait(<<"auditComment", c.id>>))]
     IN task' = [task EXCEPT ![t] =
          IF interrupted THEN DoneWith(rec, "auditComments", "interrupted")
          ELSE [rec EXCEPT !.pc = "acSend"]]
  /\ UNCHANGED <<bottle, comment, nextBottleId, nextCommentId, files, today,
                 config, bottleMap, sched>>

\* remove("comment", { id: { $in: brokenCommentId } })
PurgedComments(broken) == {c \in comment : c.id \notin broken}

\* let reply = await session.prompt(30000), then the removal
ACPrompt(t, reply) ==
  /\ task[t].pc = "acPrompt"
  /\ IF reply
     THEN /\ comment' = PurgedComments(task[t].broken)
          /\ task' = [task EXCEPT
                        ![t] = DoneWith(task[t], "auditComments", "purged")]
     ELSE /\ task' = [task EXCEPT ![t] =
                        DoneWith(task[t], "auditComments", "purgeCancelled")]
          /\ UNCHANGED comment
  /\ UNCHANGED <<bottle, nextBottleId, nextCommentId, files, today,
                 config, bottleMap, sched>>

(***************************************************************************)
(* SpecRetry: the five deliveries that retry, over a transport that fails  *)
(* at will: a bottle is posted with its preview, commented with the        *)
(* comment's preview, drawn, audited, and broadcast by the scheduler to    *)
(* the guilds the first bot sees and to the guilds listed for the second.  *)
(***************************************************************************)
InitRetry ==
  InitWith(WithRandomSend(Configs({TRUE}, {"url"}, {TRUE}),
                          {[b \in Bots |-> IF b = 1 THEN "all" ELSE "list"]}))

SchedStep ==
  \/ SchedReady
  \/ SchedWait
  \/ \E disposed \in BOOLEAN : SchedWake(disposed)
  \/ \E seen, threw \in BOOLEAN : SchedEnum(seen, threw)
  \/ SchedGet
  \/ \E primary, fallback \in BOOLEAN : SchedTry(primary, fallback)
  \/ \E disposed \in BOOLEAN : SchedSleep(disposed)

NextRetry ==
  \/ /\ bottle = {}
     /\ \E pOut \in RetryOutcomes :
          PostBottle(1, "bob", Text(1), NoQuote, NoTitle, "ok", pOut)
  \/ PCStart(1, "bob", 1, 0, Text(1))
  \/ PCGetComments(1)
  \/ PCCreate(1)
  \/ \E sent \in BOOLEAN : PCPreview(1, sent)
  \/ \E interrupted \in BOOLEAN : PCSleep(1, interrupted)
  \/ PCGetCount(1)
  \/ PCSetCount(1)
  \/ DrawStart(1, "bob", <<>>, 1)
  \/ \E sent \in BOOLEAN : DrawSend(1, sent)
  \/ \E interrupted \in BOOLEAN : DrawSleep(1, interrupted)
  \/ \E confirm \in BOOLEAN : ABStart(1, "alice", 0, 0, confirm)
  \/ \E sent \in BOOLEAN : ABSend(1, sent)
  \/ \E interrupted \in BOOLEAN : ABDelay(1, interrupted)
  \/ \E interrupted \in BOOLEAN : ABSleep(1, interrupted)
  \/ \E reply \in BOOLEAN : ABPrompt(1, reply)
  \/ SchedStep

SpecRetry == InitRetry /\ [][NextRetry]_vars

\* The attempts of one retry loop that a log records before position i.
TriesBefore(log, i) ==
  {j \in 1..(i - 1) : log[j].ev = "try" /\ log[j].loop = log[i].loop}

\* Every attempt follows failed attempts only, at most maxRetry of them, each
\* with a wait of the loop after it.
Disciplined(log) ==
  \A i \in 1..Len(log) :
    log[i].ev = "try" =>
      /\ Cardinality(TriesBefore(log, i)) <= MaxRetry
      /\ \A j \in TriesBefore(log, i) :
           /\ ~log[j].ok
           /\ \E k \in (j + 1)..(i - 1) :
                log[k].ev = "wait" /\ log[k].loop = log[i].loop

\* A loop of the log failed maxRetry + 1 times.
GaveUp(log, delivery) ==
  \E i \in 1..Len(log) :
    /\ log[i].ev = "try" /\ ~log[i].ok /\ log[i].loop[1] = delivery
    /\ Cardinality(TriesBefore(log, i)) = MaxRetry

InitNotify == InitWith(Configs({FALSE}, {"url"}, {TRUE}))

NextNotify ==
  \/ \E u \in {"alice", "bob"} :
       PostBottle(1, u, Text(1), NoQuote, NoTitle, "ok", "ok")
  \/ \E u \in Users, rid \in {0, 1} : PCStartOn(1, u, 1, rid, Text(1), FALSE)
  \/ PCGetReply(1)
  \/ \E seen \in {{}, {"g1"}, Guilds}, friends \in {{}, {"alice", "bob"}},
        fault \in Faults, chanOk, guildOk \in BOOLEAN :
       PCNotify(1, seen, friends, fault, chanOk, guildOk)
  \/ PCGetComments(1)
  \/ PCCreate(1)
  \/ \E sent \in BOOLEAN : PCNotice(1, sent)
  \/ PCGetLength(1)
  \/ PCSetCount(1)

SpecNotify == InitNotify /\ [][NextNotify]_vars

\* The notification sends a log records.
Notifications(log) == {i \in 1..Len(log) : log[i].ev = "notify"}

\* The step makes invocation t send a notification.
Notifies(t) ==
  /\ task'[t].op = "postComment"
  /\ Cardinality(Notifications(task'[t].log))
       > Cardinality(Notifications(task[t].log))

\* The row whose owner a comment or a reply is announced to.
TargetOf(rec) == IF rec.rid > 0 THEN rec.parent ELSE rec.brow

\* C17: a failure of a step of the notification fan-out (enumerating the
\* guilds or the friends, sending to the channel, sending to the guild)
\* never ends the comment handler: it goes on to the next bot or to the
\* creation of the comment row.
C17_FanOutNeverAborts ==
  [][\A t \in Tasks :
       task[t].pc = "notify" => task'[t].pc \in {"notify", "getComments"}]_vars

C19_ReplyGoesToParentLocators ==
  [][\A t \in Tasks :
       (Notifies(t) /\ task[t].rid > 0) =>
         LET old == Len(task[t].log)
             new == task'[t].log
             parent == task[t].parent
         IN /\ \A i \in (old + 1)..Len(new) :
                 new[i].ev = "notify" => new[i].item \in {parent.cnid,
                                                          parent.gid}
            /\ new[old + 1].item = IF parent.cnid # "" THEN parent.cnid
                                   ELSE parent.gid]_vars

(***************************************************************************)
(* SpecSched: the broadcast loop under each target map, while bottles are  *)
(* posted and deleted; a bot sees guilds or none, its enumeration may      *)
(* throw, each send may fail, and either wait may be cancelled.            *)
(***************************************************************************)
InitSched ==
  InitWith(WithRandomSend(Configs({FALSE}, {"url"}, {TRUE}),
                          [Bots -> GuildModes]))

NextSched ==
  \/ PostBottle(1, "bob", Text(1), NoQuote, NoTitle, "ok", "ok")
  \/ \E id \in BottleIds : DeleteBottle(1, "bob", id)
  \/ SchedStep

SpecSched == InitSched /\ [][NextSched]_vars

\* C20: once enabled, the scheduler moves from Idle to Counting-Down, from
\* there to Dispatching, and from Dispatching back to Idle, whatever the
\* bottle store holds, whatever guilds a bot sees and however the sends
\* end; it leaves this cycle only when a wait is cancelled.
C20_SchedulerCycles ==
  [][sched'.pc # sched.pc =>
       \/ sched.pc = "off" /\ sched'.pc = "idle"
       \/ sched.pc = "idle" /\ sched'.pc = "countdown"
       \/ /\ sched.pc \in Dispatching \cup {"countdown"}
          /\ sched'.pc \in Dispatching \cup {"idle", "stopped"}]_vars

(***************************************************************************)
(* SpecCancel: SpecSched with a cancellation that may also arrive in the   *)
(* middle of a dispatch.                                                   *)
(***************************************************************************)
NextCancel ==
  \/ NextSched
  \/ SchedDispose

SpecCancel == InitSched /\ [][NextCancel]_vars

\* The attempts a log records.
Attempts(log) == {i \in 1..Len(log) : log[i].ev = "try"}

\* C21: after the cancellation signal the scheduler starts no further send,
\* neither for the remaining bots nor as a retry.
C21_NoSendAfterCancel ==
  [][sched.disposed =>
       Cardinality(Attempts(sched'.log))
         <= Cardinality(Attempts(sched.log))]_vars

\* The bots after bot i whose platform is not skipped.
LaterBots(i) == {j \in Bots : j > i /\ config.guildId[j] # "none"}

\* The last event of a log.
Last(log) == log[Len(log)]

\* C22: each attempt of a dispatch sends a bottle drawn from the bottles
\* read for this bot, and when the attempt that uses up the retry budget
\* fails, only this bot is given up: the dispatch goes on with the next bot
\* that has targets, and after the last one the loop is back at its top.
C22_ResampleAndAbandonOneSession ==
  [][(sched.pc = "try" /\ Len(sched'.log) > Len(sched.log)) =>
       /\ Last(sched'.log).item \in {b.id : b \in sched.rows}
       /\ (~Last(sched'.log).ok /\ sched.retry = MaxRetry) =>
            IF LaterBots(sched.bot) = {}
            THEN sched'.pc = "idle"
            ELSE /\ sched'.pc \in {"enum", "get"}
                 /\ sched'.bot \in LaterBots(sched.bot)
                 /\ \A j \in LaterBots(sched.bot) : sched'.bot <= j]_vars

\* The first bot's loop failed with one bottle, drew another one for the
\* retry, gave up, and the second bot is being dispatched to.
C22_Witness ==
  /\ sched.bot = 2
  /\ sched.pc = "try"
  /\ GaveUp(sched.log, "broadcast")
  /\ \E i, j \in Attempts(sched.log) :
       /\ sched.log[i].loop = <<"broadcast", 1>>
       /\ sched.log[j].loop = <<"broadcast", 1>>
       /\ sched.log[i].item # sched.log[j].item

(***************************************************************************)
(* SpecAudit: bottles are posted and commented, and an operator audits     *)
(* the bottles or the comments over a transport that fails at will,        *)
(* answering the prompts either way.                                       *)
(***************************************************************************)
InitAudit == InitWith(Configs({FALSE}, {"url"}, {TRUE}))

NextAudit ==
  \/ PostBottle(1, "bob", Text(1), NoQuote, NoTitle, "ok", "ok")
  \/ \E id \in BottleIds : PCStart(1, "bob", id, 0, Text(1))
  \/ PCGetComments(1)
  \/ PCCreate(1)
  \/ PCNotice(1, TRUE)
  \/ PCGetLength(1)
  \/ PCSetCount(1)
  \/ \E u \in {"alice", "bob"}, first \in {0, 1}, confirm \in BOOLEAN :
       \/ ABStart(1, u, first, first, confirm)
       \/ ACStart(1, u, first, first, confirm)
  \/ \E sent \in BOOLEAN : ABSend(1, sent) \/ ACSend(1, sent)
  \/ \E interrupted \in BOOLEAN :
       \/ ABDelay(1, interrupted)
       \/ ABSleep(1, interrupted)
       \/ ACDelay(1, interrupted)
       \/ ACSleep(1, interrupted)
  \/ ACGet(1)
  \/ \E reply \in BOOLEAN : ABPrompt(1, reply) \/ ACPrompt(1, reply)

SpecAudit == InitAudit /\ [][NextAudit]_vars

\* The log holds maxRetry + 1 failed attempts of this loop.
FailedOut(log, loop) ==
  Cardinality({i \in Attempts(log) : log[i].loop = loop /\ ~log[i].ok})
    = MaxRetry + 1

\* C24: an audit removes rows only in the step that answers its second
\* prompt with the delete keyword, and then exactly the rows whose re-send
\* failed maxRetry + 1 times in this run; every other step of an audit
\* leaves both tables as they are.
C24_AuditDeletesExactlyFailures ==
  [][\A t \in Tasks :
       /\ (task'[t].op = "auditBottles" /\ task'[t] # task[t]) =>
            /\ comment' = comment
            /\ IF task[t].pc = "auditPrompt" /\ task'[t].result = "purged"
               THEN /\ bottle' = {b \in bottle :
                                    ~FailedOut(task[t].log, <<"audit", b.id>>)}
                    /\ bottle' # bottle
               ELSE bottle' = bottle
       /\ (task'[t].op = "auditComments" /\ task'[t] # task[t]) =>
            /\ bottle' = bottle
            /\ IF task[t].pc = "acPrompt" /\ task'[t].result = "purged"
               THEN /\ comment' =
                         {c \in comment :
                            ~FailedOut(task[t].log, <<"auditComment", c.id>>)}
                    /\ comment' # comment
               ELSE comment' = comment]_vars

\* An audit of the comments removed the comment that could not be sent and
\* kept one that was sent.
C24_Witness ==
  /\ Ended(1, "auditComments", "purged")
  /\ comment # {}
  /\ \E i \in Attempts(task[1].log) : task[1].log[i].ok
  /\ \E i \in Attempts(task[1].log) :
       FailedOut(task[1].log, task[1].log[i].loop)

(***************************************************************************)
(* 漂流瓶.本地储存化静态资源 and 漂流瓶.b64化静态资源 (bulk migrations): after  *)
(* a confirmation, every media element of every bottle and comment whose   *)
(* src does not already start with the target prefix is fetched and        *)
(* rewritten; a row whose conversion throws is left as it was and reported.*)
(***************************************************************************)
\* The element is converted: its src does not start with `prefix`.
StaleAlways(e, prefix) == IsMedia(e)
Stale(e, prefix) == IsMedia(e) /\ e.src[1] # prefix

StaleAt(c, prefix) == {i \in 1..Len(c) : Stale(c[i], prefix)}

\* resolve(config.path, `bottle-${bottle.id}-${index}.${ext}`) for a bottle
\* and resolve(config.path, `bottle-${comment.id}-${index}.${ext}`) for a
\* comment: the table the row comes from is not part of the name.
MigratedName(table, id, index) == FileSrc("bottle", id, index)

\* The content the migration stores for a row it converted.
Converted(c, table, id, prefix) ==
  [i \in 1..Len(c) |->
     IF ~Stale(c[i], prefix) THEN c[i]
     ELSE IF prefix = "file"
          THEN Media(c[i].type, MigratedName(table, id, i - 1))
          ELSE Media(c[i].type,
                     DataSrc(IF c[i].src[1] = "file" THEN "local"
                             ELSE c[i].src[2]))]

\* The elements the migration converts, as <<table, row id, position>>.
StaleElements(rows, table, prefix) ==
  UNION {{<<table, r.id, i>> : i \in StaleAt(r.content, prefix)} : r \in rows}

\* readFileSync(path) throws for a row that refers to a missing file.
Unreadable(rows) ==
  {r.id : r \in {x \in rows : ~(LocalFiles(x.content) \subseteq files)}}

\* The table after the loop over its rows: a row whose conversion threw
\* (out) is skipped by the catch block, every other row is converted.
AllConverted(rows, table, out, prefix) ==
  {[r EXCEPT !.content = Converted(r.content, table, r.id, prefix)]
     : r \in rows}
MigratedRows(rows, table, out, prefix) ==
  {IF r.id \in out THEN r
   ELSE [r EXCEPT !.content = Converted(r.content, table, r.id, prefix)]
     : r \in rows}

\* The conversions the loop over a table attempts, in the order of the row
\* ids: one try block per row with a convertible element.
RECURSIVE Conversions(_, _, _, _)
Conversions(rows, table, out, prefix) ==
  IF rows = {} THEN <<>>
  ELSE LET r == FirstRow(rows)
           rest == Conversions(rows \ {r}, table, out, prefix)
       IN IF StaleAt(r.content, prefix) = {} THEN rest
          ELSE <<Try(<<table, r.id>>, r.id, r.id \notin out)>> \o rest

\* failedB and failedC are the rows whose conversion threw (bottleFatal and
\* commentFatal); `partial` are the elements of those rows that had been
\* converted before Promise.all rejected.
Migrate(t, u, confirm, prefix) ==
  LET op == IF prefix = "file" THEN "migrateLocal" ELSE "migrateInline"
      staleB == StaleElements(bottle, "bottle", prefix)
      staleC == StaleElements(comment, "comment", prefix)
  IN /\ Free(t)
     /\ IF ~IsManager(u)
        THEN /\ task' = [task EXCEPT ![t] = DoneFor(u, op, "noPermission")]
             /\ UNCHANGED <<bottle, comment, files>>
        ELSE IF ~Confirmed(confirm)
        THEN /\ task' = [task EXCEPT ![t] = DoneFor(u, op, "cancelled")]
             /\ UNCHANGED <<bottle, comment, files>>
        ELSE \E failedB \in SUBSET {e[2] : e \in staleB},
                failedC \in SUBSET {e[2] : e \in staleC} :
               LET failed == {e \in staleB : e[2] \in failedB}
                               \cup {e \in staleC : e[2] \in failedC}
               IN \E partial \in SUBSET failed :
                    LET done == ((staleB \cup staleC) \ failed) \cup partial
                    IN /\ prefix = "data" =>
                            /\ Unreadable(bottle) \subseteq failedB
                            /\ Unreadable(comment) \subseteq failedC
                       /\ bottle' =
                            MigratedRows(bottle, "bottle", failedB, prefix)
                       /\ comment' =
                            MigratedRows(comment, "comment", failedC, prefix)
                       /\ files' =
                            IF prefix = "file"
                            THEN files \cup
                                   {MigratedName(e[1], e[2], e[3] - 1)
                                      : e \in done}
                            ELSE files
                       /\ task' = [task EXCEPT ![t] =
                            [DoneFor(u, op, IF failed = {} THEN "ok"
                                            ELSE "failed")
                               EXCEPT !.answer = confirm,
                                      !.count = Cardinality(done),
                                      !.fatal =
                                        {<<e[1], e[2]>> : e \in failed},
                                      !.log =
                                        Conversions(bottle, "bottle",
                                                    failedB, prefix)
                                        \o Conversions(comment, "comment",
                                                       failedC, prefix)]]
     /\ UNCHANGED <<nextBottleId, nextCommentId, today, config, bottleMap,
                    sched>>

MigrateLocal(t, u, confirm) == Migrate(t, u, confirm, "file")

MigrateInline(t, u, confirm) == Migrate(t, u, confirm, "data")

(***************************************************************************)
(* Management commands over a store of bottles and comments that carry an  *)
(* image: one invocation at a time, by the manager or by someone else.     *)
(***************************************************************************)
InitAdmin == InitWith(Configs({FALSE}, {"url"}, {TRUE}))

AdminIds == 1..MaxBottles

NextAdmin ==
  \/ /\ nextBottleId = 1
     /\ \E message \in {Image, Text(1) \o Image} :
          PostBottle(1, "bob", message, NoQuote, NoTitle, "ok", "ok")
  \/ nextCommentId = 1 /\ PCStart(1, "bob", 1, 0, Image)
  \/ PCGetComments(1)
  \/ PCCreate(1)
  \/ PCNotice(1, TRUE)
  \/ PCGetLength(1)
  \/ PCSetCount(1)
  \/ Tick
  \/ \E u \in {"alice", "bob"} :
       \/ Expire(1, u, 0)
       \/ \E id \in AdminIds : SetFeatured(1, u, id)
       \/ \E confirm \in BOOLEAN :
            \/ ABStart(1, u, 0, 0, confirm)
            \/ ACStart(1, u, 0, 0, confirm)
            \/ MigrateLocal(1, u, confirm)
            \/ MigrateInline(1, u, confirm)
  \/ \E sent \in BOOLEAN : ABSend(1, sent) \/ ACSend(1, sent)
  \/ \E interrupted \in BOOLEAN :
       \/ ABDelay(1, interrupted)
       \/ ABSleep(1, interrupted)
       \/ ACDelay(1, interrupted)
       \/ ACSleep(1, interrupted)
  \/ ACGet(1)
  \/ \E reply \in BOOLEAN : ABPrompt(1, reply) \/ ACPrompt(1, reply)

SpecAdmin == InitAdmin /\ [][NextAdmin]_vars

\* The commands that ask for a confirmation before they act.
Prompting == {"auditBottles", "auditComments", "migrateLocal", "migrateInline"}

\* The step in which task t invokes one of the commands in ops.
Invokes(t, ops) ==
  /\ Free(t)
  /\ task'[t] # task[t]
  /\ task'[t].op \in ops

\* C25: when the reply to the first confirmation prompt of audit-bottles,
\* audit-comments, migrate-to-local or migrate-to-inline is not exactly the
\* confirmation keyword, the command ends at once: no bottle or comment is
\* re-sent, and no row and no file is changed.
C25_UnconfirmedCancels ==
  [][\A t \in Tasks :
       (Invokes(t, Prompting) /\ ~task'[t].answer) =>
         /\ task'[t].pc = "done"
         /\ task'[t].log = <<>>
         /\ bottle' = bottle
         /\ comment' = comment
         /\ files' = files]_vars

C25_Witness ==
  /\ Ended(1, "migrateLocal", "cancelled")
  /\ task[1].u \in Managers
  /\ StaleElements(bottle, "bottle", "file") # {}
  /\ StaleElements(comment, "comment", "file") # {}

\* The commands reserved to config.manager.
Managed == Prompting \cup {"expire", "setFeatured"}

\* The bottles whose isHot flag is set.
Featured(rows) == {b.id : b \in {x \in rows : x.isHot = 1}}

\* C27: expire, audit-bottles, audit-comments, migrate-to-local,
\* migrate-to-inline and set-featured invoked by someone outside
\* config.manager end at once and change no bottle, no comment and no file;
\* a bottle's featured flag becomes set only in a step of set-featured
\* invoked by a manager.
C27_ManagersOnly ==
  [][/\ \A t \in Tasks :
          (Invokes(t, Managed) /\ task'[t].u \notin Managers) =>
            /\ task'[t].pc = "done"
            /\ task'[t].log = <<>>
            /\ bottle' = bottle
            /\ comment' = comment
            /\ files' = files
     /\ ~(Featured(bottle') \subseteq Featured(bottle)) =>
          \E t \in Tasks : /\ Invokes(t, {"setFeatured"})
                           /\ task'[t].u \in Managers]_vars

C27_Witness ==
  /\ Ended(1, "expire", "noPermission")
  /\ task[1].u \notin Managers
  /\ Featured(bottle) # {}
  /\ \E b \in bottle : Expired(b, 0)
  /\ StaleElements(comment, "comment", "data") # {}

\* The rows of both tables, each tagged with its table.
Entities ==
  {<<"bottle", b.id, b.content>> : b \in bottle}
    \cup {<<"comment", c.id, c.content>> : c \in comment}

\* C29: local file names are injective over (table, row id, element
\* index): no file is the asset of two different rows, be they a bottle and
\* a comment or two rows of one table.
C29_FileNamesInjective ==
  \A x \in Entities, y \in Entities :
    (x[1] # y[1] \/ x[2] # y[2]) =>
      LocalFiles(x[3]) \cap LocalFiles(y[3]) = {}

\* C30: a bulk migration invoked right after a fully successful run of the
\* same migration converts nothing: it reports zero converted references
\* and changes no content and no file.
C30_MigrationIdempotent ==
  [][\A t \in Tasks, op \in {"migrateLocal", "migrateInline"} :
       (/\ Ended(t, op, "ok")
        /\ Invokes(t, {op})
        /\ task'[t].answer) =>
         /\ task'[t].result = "ok"
         /\ task'[t].count = 0
         /\ bottle' = bottle
         /\ comment' = comment
         /\ files' = files]_vars

C30_Witness ==
  /\ Ended(1, "migrateLocal", "ok")
  /\ task[1].count = 0
  /\ \E b \in bottle : LocalFiles(b.content) # {}
  /\ \E c \in comment : LocalFiles(c.content) # {}

(***************************************************************************)
(* SpecDelete: two invocations in flight at once over one bottle; bob and  *)
(* carol comment on it and anyone asks for a deletion.                     *)
(***************************************************************************)
InitDelete == InitWith(Configs({TRUE}, {"url"}, {TRUE}))

NextDelete ==
  \E t \in Tasks :
    \/ /\ nextBottleId = 1
       /\ PostBottle(t, "bob", Text(1), NoQuote, NoTitle, "ok", "ok")
    \/ \E u \in {"bob", "carol"}, rid \in {0, 1} :
         PCStart(t, u, 1, rid, Text(1))
    \/ PostCommentStepConc(t)
    \/ \E u \in Users :
         \/ \E cid \in 1..MaxComments : DeleteComment(t, u, 1, cid)
         \/ DeleteBottle(t, u, 1)

SpecDelete == InitDelete /\ [][NextDelete]_vars

\* The rows that a step removes from a table.
Removed(rows, rows2) == {r \in rows : r.id \notin {x.id : x \in rows2}}

\* C26: delete-bottle removes a bottle only when the requester is its
\* author or a manager, and delete-comment removes a comment only when the
\* requester is its author or a manager, also when several comments of one
\* bottle carry the same cid.
C26_DeleteOwnOrManaged ==
  [][\A t \in Tasks :
       /\ (task'[t] # task[t] /\ task'[t].op = "deleteBottle") =>
            \A b \in Removed(bottle, bottle') :
              task'[t].u = b.uid \/ task'[t].u \in Managers
       /\ (task'[t] # task[t] /\ task'[t].op = "deleteComment") =>
            \A c \in Removed(comment, comment') :
              task'[t].u = c.uid \/ task'[t].u \in Managers]_vars

(***************************************************************************)
(* SpecMedia: every way a bottle is shown, over bottles with and without   *)
(* an audio element: the preview of post-bottle, a draw in either display  *)
(* mode, the scheduled broadcast and the re-send of audit-bottles.         *)
(***************************************************************************)
InitMedia ==
  InitWith(WithMessageRecord(
             WithRandomSend(Configs({TRUE}, {"url"}, {TRUE}),
                            {[b \in Bots |-> "all"]}),
             BOOLEAN))

NextMedia ==
  \/ /\ nextBottleId = 1
     /\ \E message \in {Audio, Text(1)} :
          PostBottle(1, "bob", message, NoQuote, NoTitle, "ok", "ok")
  \/ DrawStart(1, "bob", NoTitle, 0)
  \/ \E sent \in BOOLEAN : DrawSend(1, sent) \/ ABSend(1, sent)
  \/ \E interrupted \in BOOLEAN :
       \/ DrawSleep(1, interrupted)
       \/ ABDelay(1, interrupted)
       \/ ABSleep(1, interrupted)
  \/ ABStart(1, "alice", 0, 0, TRUE)
  \/ \E reply \in BOOLEAN : ABPrompt(1, reply)
  \/ SchedStep

SpecMedia == InitMedia /\ [][NextMedia]_vars

\* The delivery attempts logged so far, by handlers and by the scheduler.
Shown ==
  UNION {{log[i] : i \in {j \in DOMAIN log : log[j].ev = "try"}}
           : log \in {task[t].log : t \in Tasks} \cup {sched.log}}

\* C23: whenever a bottle whose content has an audio or video element is
\* delivered (preview, draw in either display mode, broadcast, audit
\* re-send), no message carries both the caption and the media.
C23_MediaApart ==
  \A e \in Shown : \A j \in DOMAIN e.msgs :
    ~({"caption", "media"} \subseteq e.msgs[j])

(***************************************************************************)
(* The middleware: a message that quotes one of the bot's messages whose   *)
(* handle is in bottleMap becomes, unless "取消" arrives within 30 seconds, *)
(* 漂流瓶.评论瓶子 on the mapped bottle with the message as its content.    *)
(***************************************************************************)
MaxHandles == 2

Handles ==
  {Handle(id, j, n) : id \in 1..MaxBottles, j \in 1..2, n \in 1..MaxHandles}

\* bottleMap.get(session.quote.id), as the set of the values found.
MapGet(h) == {p[2] : p \in {x \in bottleMap : x[1] = h}}

QuoteReply(t, u, h, cancel, ct) ==
  \/ /\ Free(t)
     /\ MapGet(h) = {} \/ cancel
     /\ task' = [task EXCEPT ![t] =
          Done("quote", IF MapGet(h) = {} THEN "passed" ELSE "cancelled")]
     /\ UNCHANGED <<bottle, comment, nextBottleId, nextCommentId, files,
                    today, config, bottleMap, sched>>
  \/ /\ ~cancel
     /\ \E id \in MapGet(h) : PCStart(t, u, id, 0, ct)

(***************************************************************************)
(* SpecQuote: bottles with and without audio are drawn in either display   *)
(* mode on a transport that returns one or two handles for a message, and  *)
(* the messages are quoted.                                                *)
(***************************************************************************)
InitQuote ==
  InitWith(WithMessageRecord(Configs({FALSE}, {"url"}, {TRUE}), BOOLEAN))

NextQuote ==
  \/ \E message \in {Audio, Text(1)} :
       PostBottle(1, "bob", message, NoQuote, NoTitle, "ok", "ok")
  \/ DrawStart(1, "bob", NoTitle, 0)
  \/ \E sent, partial \in BOOLEAN, k \in 1..MaxHandles :
       DrawSendWith(1, sent, partial, k)
  \/ \E interrupted \in BOOLEAN : DrawSleep(1, interrupted)
  \/ \E h \in Handles, cancel \in BOOLEAN :
       QuoteReply(1, "carol", h, cancel, Text(1))
  \/ PCGetComments(1)
  \/ PCCreate(1)
  \/ PCNotice(1, TRUE)
  \/ PCGetLength(1)
  \/ PCSetCount(1)

SpecQuote == InitQuote /\ [][NextQuote]_vars

\* C28: when a draw has delivered a bottle, every handle its sends returned
\* is in bottleMap with the id of the bottle shown, and every entry of
\* bottleMap (the target of a quoted reply) is the id of the bottle that
\* the message shows.
C28_EveryHandleMapped ==
  [][/\ \A t \in Tasks :
          (task[t].pc = "drawSend" /\ task'[t].result = "rendered") =>
            \A h \in Last(task'[t].log).ids :
              <<h, task'[t].bid>> \in bottleMap'
     /\ \A p \in bottleMap' : p[2] = p[1][1]]_vars

\* Every media element of the rows was read from a local file into the
\* content: the rows went to local files and then inline.
InlinedFromLocal(rows) ==
  \A r \in rows : \A i \in 1..Len(r.content) :
    IsMedia(r.content[i]) => r.content[i].src = DataSrc("local")

\* C31: for every bottle and every comment, the migration to local files,
\* then inline, then back to local files ends with the content that the
\* same row has when it is stored in local-file mode at creation.
C31_RoundTripIsDirectLocal ==
  [][\A t \in Tasks :
       (/\ Ended(t, "migrateInline", "ok")
        /\ InlinedFromLocal(bottle \cup comment)
        /\ Invokes(t, {"migrateLocal"})
        /\ task'[t].result = "ok"
        /\ task'[t].answer) =>
         /\ bottle' = {[b EXCEPT !.content =
                          Externalized(b.content, "file", "bottle", b.id)]
                         : b \in bottle}
         /\ comment' = {[c EXCEPT !.content =
                           Externalized(c.content, "file", "comment", c.id)]
                          : c \in comment}]_vars

\* The rows of both tables as <<table, id, content>>, before and after a
\* step.
EntitiesAfter ==
  {<<"bottle", b.id, b.content>> : b \in bottle'}
    \cup {<<"comment", c.id, c.content>> : c \in comment'}

\* C32: in a bulk migration, a row whose conversion fails is reported as
\* failed and keeps its content, every other row is converted, and the
\* command ends with its report.
C32_FailureSkipsOneRow ==
  [][\A t \in Tasks, op \in {"migrateLocal", "migrateInline"} :
       (Invokes(t, {op}) /\ task'[t].answer) =>
         LET prefix == IF op = "migrateLocal" THEN "file" ELSE "data"
         IN /\ task'[t].pc = "done"
            /\ task'[t].result = IF task'[t].fatal = {} THEN "ok" ELSE "failed"
            /\ \A x \in Entities :
                 IF <<x[1], x[2]>> \in task'[t].fatal
                 THEN x \in EntitiesAfter
                 ELSE \E y \in EntitiesAfter :
                        /\ y[1] = x[1] /\ y[2] = x[2]
                        /\ StaleAt(y[3], prefix) = {}]_vars

C32_Witness ==
  /\ Ended(1, "migrateLocal", "failed")
  /\ task[1].fatal = {<<"bottle", 1>>}
  /\ \E b \in bottle : StaleAt(b.content, "file") # {}
  /\ \E c \in comment : LocalFiles(c.content) # {}

\* C33: in a bulk migration, a row is recorded as failed only after its
\* conversion failed maxRetry + 1 times, with a wait of the retry interval
\* between two attempts.
C33_MigrationRetries ==
  [][\A t \in Tasks :
       Invokes(t, {"migrateLocal", "migrateInline"}) =>
         /\ Disciplined(task'[t].log)
         /\ \A x \in task'[t].fatal : FailedOut(task'[t].log, x)]_vars

\* ---------------------------------------------------------------------
\* Startup: apply() fills in commentCount for stores written before the
\* field existed.

\* extendTables: commentCount has initial value -1.
Sentinel == -1

\* count[comment.bid]++ on a key that was never set to 0 leaves NaN there.
NaN == -2

IdsOf(rows) == {b.id : b \in rows}

Highest(ids) ==
  IF ids = {} THEN 0 ELSE CHOOSE n \in ids : \A k \in ids : k <= n

\* The count object built from every bottle and then every comment.
Counted(bottles, comments) ==
  [id \in IdsOf(bottles) \cup {c.bid : c \in comments} |->
     IF id \in IdsOf(bottles)
     THEN Cardinality({c \in comments : c.bid = id})
     ELSE NaN]

\* A row the store builds for an upserted id it does not hold.
DefaultBottle(id, n) ==
  [id |-> id, name |-> <<>>, uid |-> "none", gid |-> "none",
   cnid |-> "none", content |-> <<>>, isHot |-> 0, commentCount |-> n,
   time |-> 0]

\* ctx.database.upsert("bottle", [{id, commentCount}, ...])
Upserted(rows, count) ==
  {[b EXCEPT !.commentCount = count[b.id]] : b \in rows}
    \cup {DefaultBottle(id, count[id]) : id \in DOMAIN count \ IdsOf(rows)}

\* apply(): currentBottles is what the store returns, first is its row 0;
\* ok tells whether the upsert succeeded.
Backfill(first, ok) ==
  /\ sched.pc = "boot"
  /\ IF bottle = {} THEN first = NoRow ELSE first \in bottle
  /\ IF first = NoRow \/ first.commentCount # Sentinel
     THEN /\ sched' = [sched EXCEPT !.pc = "off"]
          /\ UNCHANGED <<bottle, nextBottleId>>
     ELSE IF ~ok
     THEN /\ sched' = [sched EXCEPT !.pc = "crashed"]
          /\ UNCHANGED <<bottle, nextBottleId>>
     ELSE LET rows == Upserted(bottle, Counted(bottle, comment))
          IN /\ bottle' = rows
             /\ nextBottleId' = 1 + Highest(IdsOf(rows))
             /\ sched' = [sched EXCEPT !.pc = "off"]
  /\ UNCHANGED <<comment, nextCommentId, files, today, config, bottleMap,
                 task>>

\* A bottle written before the upgrade (or by a writer that leaves the
\* field out) carries the sentinel; the others carry their count.
StoredBottle(id, n) ==
  [id |-> id, name |-> <<>>, uid |-> "alice", gid |-> Place["alice"].gid,
   cnid |-> Place["alice"].cnid, content |-> Text(1), isHot |-> 0,
   commentCount |-> n, time |-> 0]

StoredComment(id, bid) ==
  [id |-> id, cid |-> id, bid |-> bid, uid |-> "bob",
   gid |-> Place["bob"].gid, cnid |-> Place["bob"].cnid,
   content |-> Text(1), time |-> 0]

BootComments == 1..2

InitBoot ==
  /\ \E cs \in SUBSET BootComments :
       \E bids \in [cs -> 1..MaxBottles] :
         /\ comment = {StoredComment(id, bids[id]) : id \in cs}
         /\ nextCommentId = 1 + Highest(cs)
         /\ \E bs \in SUBSET (1..MaxBottles) :
              \E old \in SUBSET bs :
                /\ bottle =
                     {StoredBottle(id,
                        IF id \in old THEN Sentinel
                        ELSE Cardinality({c \in cs : bids[c] = id})) :
                      id \in bs}
                /\ nextBottleId = 1 + Highest(bs)
  /\ files = {}
  /\ today = 0
  /\ config \in Configs({FALSE}, {"url"}, {FALSE})
  /\ task = [t \in Tasks |-> Idle]
  /\ sched = [pc |-> "boot", bot |-> 0, retry |-> 0, guilds |-> FALSE,
              rows |-> {}, log |-> <<>>, disposed |-> FALSE]
  /\ bottleMap = {}

NextBoot ==
  \/ \E first \in bottle \cup {NoRow}, ok \in BOOLEAN : Backfill(first, ok)
  \/ /\ sched.pc = "off"
     /\ \/ PostBottle(1, "alice", Text(1), NoQuote, NoTitle, "ok", "ok")
        \/ \E id \in 1..MaxBottles : DeleteBottle(1, "alice", id)

SpecBoot == InitBoot /\ [][NextBoot]_vars

Started == sched.pc = "boot" /\ sched'.pc = "off"

\* C34: when a bottle carries the sentinel commentCount at startup, then once
\* startup has completed no bottle carries it and every bottle's commentCount
\* is the number of comments with its id as bid.
C34_BackfillCompletes ==
  [][(Started /\ \E b \in bottle : b.commentCount = Sentinel) =>
       \A b \in bottle' :
         /\ b.commentCount # Sentinel
         /\ b.commentCount = Cardinality(CommentsOf(b.id))]_vars

\* C38: the startup backfill creates no bottle row, also when a comment's
\* bid names no bottle.
C38_BackfillCreatesNoBottle ==
  [][sched.pc = "boot" => IdsOf(bottle') = IdsOf(bottle)]_vars

\* ---------------------------------------------------------------------
\* Comments and their bottles

Quiet == \A t \in Tasks : Free(t)

\* C35: whenever no command is in flight, every comment's bid is the id of a
\* bottle of the store.
C35_CommentsHaveBottles ==
  Quiet => \A c \in comment : c.bid \in IdsOf(bottle)

\* ---------------------------------------------------------------------
\* SpecRollback: two comment handlers in flight on one bottle, the preview
\* on and free to fail.

InitRollback == InitWith(Configs({TRUE}, {"url"}, {TRUE}))

NextRollback ==
  \E t \in Tasks :
    \/ /\ bottle = {}
       /\ PostBottle(t, "bob", Text(1), NoQuote, NoTitle, "ok", "ok")
    \/ \E u \in {"bob", "carol"} : PCStart(t, u, 1, 0, Text(1))
    \/ PCGetComments(t)
    \/ PCCreate(t)
    \/ \E sent \in BOOLEAN : PCPreview(t, sent)
    \/ \E interrupted \in BOOLEAN : PCSleep(t, interrupted)
    \/ PCGetCount(t)
    \/ PCSetCount(t)

SpecRollback == InitRollback /\ [][NextRollback]_vars

\* The comment handler of task t gives up on its preview in this step.
GivesUpPreview(t) ==
  /\ task[t].pc # "done"
  /\ task'[t].pc = "done"
  /\ task'[t].op = "postComment"
  /\ task'[t].result = "previewFailed"

\* C36: when the preview of a comment fails for the last time, the handler
\* removes the comment row it created and no other row, and the bottle's
\* commentCount stays as it was.
C36_RollbackRemovesOwnRow ==
  [][\A t \in Tasks :
       GivesUpPreview(t) =>
         /\ comment' = {c \in comment : c.id # task[t].cmid}
         /\ bottle' = bottle]_vars

\* ---------------------------------------------------------------------
\* Replies

\* What every comment of Spec and SpecNotify is posted with.
Said == Text(1)

\* The comment handler of task t, answering another comment, stores its row.
StoresReply(t) ==
  /\ task[t].pc = "create"
  /\ task[t].rid > 0
  /\ task'[t] # task[t]

\* C37: the stored content of a reply is the quoted text with the prefix
\* "reply to <cid>. <author>" in front of it exactly once.
C37_ReplyPrefixedOnce ==
  [][\A t \in Tasks :
       StoresReply(t) =>
         \A c \in comment' \ comment :
           c.content = ReplyPrefixed(Quoted(Said))]_vars

\* ---------------------------------------------------------------------
\* SpecLive: one handler at a time, its sends free to fail; every call
\* that a handler in flight awaits returns, so its next step is taken.

InitLive == InitWith(Configs({TRUE}, {"url"}, {TRUE}))

LiveStart ==
  \/ /\ bottle = {}
     /\ \E pOut \in RetryOutcomes :
          PostBottle(1, "bob", Text(1), NoQuote, NoTitle, "ok", pOut)
  \/ nextCommentId <= MaxComments /\ PCStart(1, "bob", 1, 0, Text(1))
  \/ DrawStart(1, "bob", <<>>, 1)
  \/ \E confirm \in BOOLEAN : ABStart(1, "alice", 0, 0, confirm)

LiveStep ==
  \/ PCGetComments(1)
  \/ PCCreate(1)
  \/ \E sent \in BOOLEAN : PCPreview(1, sent)
  \/ \E interrupted \in BOOLEAN : PCSleep(1, interrupted)
  \/ PCGetCount(1)
  \/ PCSetCount(1)
  \/ \E sent \in BOOLEAN : DrawSend(1, sent)
  \/ \E interrupted \in BOOLEAN : DrawSleep(1, interrupted)
  \/ \E sent \in BOOLEAN : ABSend(1, sent)
  \/ \E interrupted \in BOOLEAN : ABDelay(1, interrupted)
  \/ \E interrupted \in BOOLEAN : ABSleep(1, interrupted)
  \/ \E reply \in BOOLEAN : ABPrompt(1, reply)

NextLive == LiveStart \/ LiveStep

SpecLive == InitLive /\ [][NextLive]_vars /\ WF_vars(LiveStep)

====
